---- MODULE Spec2Model ----
(***************************************************************************)
(* Model of the Graph class of graph-toolkit (src/src/Graph.cpp,           *)
(* src/include/Graph.h): a dense adjacency-matrix directed graph with      *)
(* traversals, connectivity and cycle analysis, Hamiltonian-cycle          *)
(* enumeration, Prim's minimum spanning tree and brute-force TSP.          *)
(*                                                                         *)
(* Vertices are 0-based as in the source.  std::vector<int> results are    *)
(* TLA+ sequences of 0-based vertex numbers; index-addressed vectors       *)
(* (visited, inDegree, key, parent, the matrix rows) are functions on      *)
(* 0..numVertices-1.                                                       *)
(***************************************************************************)
EXTENDS Integers, Sequences, FiniteSets, TLC

\* Largest vertex count of the graphs of Spec and SpecTraversal.
MaxV == 3
\* Up to MaxWeightedV vertices an edge of these graphs holds the 1 stored by
\* the unweighted addEdge or the weight MaxWeight; in larger graphs only
\* the 1.
MaxWeightedV == 2
MaxWeight == 2
\* Largest vertex count of the graphs of SpecOpt (MST and TSP).
OptMaxV == 3
\* The edges of the graphs of SpecOpt weigh 1..OptMaxWeight or the largest
\* int; their self-loops weigh at most MaxLoopWeight.
OptMaxWeight == 2
MaxLoopWeight == 1
\* Width in bits of the model's int (two's complement); the source's int has
\* 32 bits, the model keeps the same arithmetic at a width TLC can enumerate.
IntBits == 4

VARIABLES
    numVertices,      \* Graph::numVertices
    isWeighted,       \* Graph::isWeighted
    adjacencyMatrix,  \* Graph::adjacencyMatrix
    other,            \* a second Graph object (the `other` of the copy and move
                      \* members), or NoGraph while it is not constructed
    frame,            \* the local variables of the member function that is
                      \* running, where a specification follows it step by
                      \* step, or NoFrame
    ret               \* the last public call: its name, arguments and outcome

vars == <<numVertices, isWeighted, adjacencyMatrix, other, frame, ret>>

\* No member function is under way.
NoFrame == [op |-> "none"]

\* The second object before its construction and after its destruction.
NoGraph == [constructed |-> FALSE]

\* The object the member functions run on.
this == [numVertices |-> numVertices, isWeighted |-> isWeighted,
         adjacencyMatrix |-> adjacencyMatrix]

Vertices(g) == 0 .. (g.numVertices - 1)

\* std::numeric_limits<int>::max() and min() at the model's width.
IntMax == 2 ^ (IntBits - 1) - 1
IntMin == 0 - 2 ^ (IntBits - 1)

\* int addition as the build computes it: the sum wraps at the int width.
IntAdd(a, b) == ((a + b - IntMin) % (2 ^ IntBits)) + IntMin

----------------------------------------------------------------------------
(* Store: constructors and point queries *)

\* Graph::Graph(size_t vertices, bool weighted); Graph(vertices) and Graph()
\* delegate with weighted = false and vertices = 0.
Graph(vertices, weighted) ==
    [numVertices |-> vertices, isWeighted |-> weighted,
     adjacencyMatrix |-> [i \in 0 .. (vertices - 1) |-> [j \in 0 .. (vertices - 1) |-> 0]]]

validVertex(g, vertex) == vertex >= 0 /\ vertex < g.numVertices

\* isAdjacent with its arguments exchanged.
isAdjacentTransposed(g, v1, v2) == g.adjacencyMatrix[v2][v1] # 0

\* The value isAdjacent returns for valid indices (invalid ones throw
\* std::out_of_range; every internal caller passes valid ones).
isAdjacent(g, v1, v2) == g.adjacencyMatrix[v1][v2] # 0

RECURSIVE getNeighborsFrom(_, _, _, _)
getNeighborsFrom(g, vertex, i, neighbors) ==
    IF i >= g.numVertices THEN neighbors
    ELSE getNeighborsFrom(g, vertex, i + 1,
             IF g.adjacencyMatrix[vertex][i] # 0 THEN Append(neighbors, i) ELSE neighbors)

\* The vector getNeighbors returns for a valid vertex.
getNeighbors(g, vertex) == getNeighborsFrom(g, vertex, 0, <<>>)

----------------------------------------------------------------------------
(* Traversal *)

\* dfsPush walking the neighbours in ascending order, so that the largest
\* one ends on top of the stack.
RECURSIVE dfsPushAscending(_, _, _, _)
dfsPushAscending(neighbors, i, visited, toTraverse) ==
    IF i = 0 THEN toTraverse
    ELSE LET neighbor == neighbors[Len(neighbors) + 1 - i]
         IN  dfsPushAscending(neighbors, i - 1, visited,
                 IF ~visited[neighbor] THEN Append(toTraverse, neighbor) ELSE toTraverse)

\* The push loop of depthFirstTraversalHelper: neighbors[i-1] for i from
\* neighbors.size() down to 1 (the source's i-- > 0 with 0-based i).
RECURSIVE dfsPush(_, _, _, _)
dfsPush(neighbors, i, visited, toTraverse) ==
    IF i = 0 THEN toTraverse
    ELSE dfsPush(neighbors, i - 1, visited,
             IF ~visited[neighbors[i]] THEN Append(toTraverse, neighbors[i]) ELSE toTraverse)

\* dfsLoop without the visited test on the popped vertex.
RECURSIVE dfsLoopNoVisitedTest(_, _, _, _)
dfsLoopNoVisitedTest(g, toTraverse, visited, result) ==
    IF toTraverse = <<>> THEN result
    ELSE LET currentVertex == toTraverse[Len(toTraverse)]
             popped == SubSeq(toTraverse, 1, Len(toTraverse) - 1)
             visited1 == [visited EXCEPT ![currentVertex] = TRUE]
             neighbors == getNeighbors(g, currentVertex)
         IN  dfsLoopNoVisitedTest(g, dfsPush(neighbors, Len(neighbors), visited1, popped),
                                  visited1, Append(result, currentVertex))

\* The while loop of depthFirstTraversalHelper; the stack's top is the last
\* element of toTraverse.
RECURSIVE dfsLoop(_, _, _, _)
dfsLoop(g, toTraverse, visited, result) ==
    IF toTraverse = <<>> THEN result
    ELSE LET currentVertex == toTraverse[Len(toTraverse)]
             popped == SubSeq(toTraverse, 1, Len(toTraverse) - 1)
         IN  IF ~visited[currentVertex]
             THEN LET visited1 == [visited EXCEPT ![currentVertex] = TRUE]
                      neighbors == getNeighbors(g, currentVertex)
                  IN  dfsLoop(g, dfsPush(neighbors, Len(neighbors), visited1, popped),
                              visited1, Append(result, currentVertex))
             ELSE dfsLoop(g, popped, visited, result)

depthFirstTraversalHelper(g, startVertex, visited) ==
    dfsLoop(g, <<startVertex>>, visited, <<>>)

\* The vector depthFirstTraversal returns for a valid start vertex.
depthFirstTraversal(g, startVertex) ==
    depthFirstTraversalHelper(g, startVertex, [v \in Vertices(g) |-> FALSE])

\* The for loop of breadthFirstTraversalHelper taking the neighbors from the
\* last to the first.
RECURSIVE bfsEnqueueDescending(_, _, _)
bfsEnqueueDescending(neighbors, i, st) ==
    IF i > Len(neighbors) THEN st
    ELSE LET neighbor == neighbors[Len(neighbors) + 1 - i]
         IN  bfsEnqueueDescending(neighbors, i + 1,
                 IF ~st.visited[neighbor]
                 THEN [visited |-> [st.visited EXCEPT ![neighbor] = TRUE],
                       toTraverse |-> Append(st.toTraverse, neighbor)]
                 ELSE st)

\* The for loop over neighbors of breadthFirstTraversalHelper; st carries
\* visited and the queue.
RECURSIVE bfsEnqueue(_, _, _)
bfsEnqueue(neighbors, i, st) ==
    IF i > Len(neighbors) THEN st
    ELSE LET neighbor == neighbors[i]
         IN  bfsEnqueue(neighbors, i + 1,
                 IF ~st.visited[neighbor]
                 THEN [visited |-> [st.visited EXCEPT ![neighbor] = TRUE],
                       toTraverse |-> Append(st.toTraverse, neighbor)]
                 ELSE st)

RECURSIVE bfsLoop(_, _, _, _)
bfsLoop(g, visited, toTraverse, traversal) ==
    IF toTraverse = <<>> THEN traversal
    ELSE LET currentVertex == Head(toTraverse)
             st == bfsEnqueue(getNeighbors(g, currentVertex), 1,
                              [visited |-> visited, toTraverse |-> Tail(toTraverse)])
         IN  bfsLoop(g, st.visited, st.toTraverse, Append(traversal, currentVertex))

breadthFirstTraversalHelper(g, visited, toTraverse) ==
    bfsLoop(g, visited, toTraverse, <<>>)

\* The vector breadthFirstTraversal returns for a valid start vertex.
breadthFirstTraversal(g, startVertex) ==
    breadthFirstTraversalHelper(g,
        [v \in Vertices(g) |-> v = startVertex], <<startVertex>>)

----------------------------------------------------------------------------
(* Connectivity and cycle analysis *)

\* isConnectedFrom trying the first vertex only.
isConnectedFromFirstOnly(g, i) ==
    IF i >= g.numVertices THEN FALSE
    ELSE Len(depthFirstTraversal(g, i)) = g.numVertices

RECURSIVE isConnectedFrom(_, _)
isConnectedFrom(g, i) ==
    IF i >= g.numVertices THEN FALSE
    ELSE IF Len(depthFirstTraversal(g, i)) = g.numVertices THEN TRUE
    ELSE isConnectedFrom(g, i + 1)

isConnected(g) == isConnectedFrom(g, 0)

\* isStronglyConnectedFrom answering as isConnected does: true at the first
\* vertex that reaches all.
RECURSIVE isStronglyConnectedFromSome(_, _)
isStronglyConnectedFromSome(g, i) ==
    IF i >= g.numVertices THEN g.numVertices = 0
    ELSE IF Len(depthFirstTraversal(g, i)) = g.numVertices THEN TRUE
    ELSE isStronglyConnectedFromSome(g, i + 1)

\* The loop of isStronglyConnected from vertex i on.
RECURSIVE isStronglyConnectedFrom(_, _)
isStronglyConnectedFrom(g, i) ==
    IF i >= g.numVertices THEN TRUE
    ELSE IF Len(depthFirstTraversal(g, i)) < g.numVertices THEN FALSE
    ELSE isStronglyConnectedFrom(g, i + 1)

isStronglyConnected(g) == isStronglyConnectedFrom(g, 0)

\* std::find(first, last, value) != last
Found(traversal, value) == \E i \in 1 .. Len(traversal) : traversal[i] = value

\* areVerticesStronglyConnected without the traversal back from v.
areVerticesStronglyConnectedOneWay(g, u, v) ==
    LET fromU == depthFirstTraversal(g, u)
        uToV == Found(fromU, v)
    IN  uToV

\* The value areVerticesStronglyConnected returns for valid u and v.
areVerticesStronglyConnected(g, u, v) ==
    LET fromU == depthFirstTraversal(g, u)
        uToV == Found(fromU, v)
    IN  IF ~uToV THEN FALSE
        ELSE LET fromV == depthFirstTraversal(g, v)
                 vToU == Found(fromV, u)
             IN  vToU

\* hasCycleInDegree counting the edge at its source instead of its target.
RECURSIVE hasCycleOutDegree(_, _, _, _)
hasCycleOutDegree(g, vertex, edge, inDegree) ==
    IF vertex >= g.numVertices THEN inDegree
    ELSE IF edge >= g.numVertices THEN hasCycleOutDegree(g, vertex + 1, 0, inDegree)
    ELSE hasCycleOutDegree(g, vertex, edge + 1,
             IF g.adjacencyMatrix[vertex][edge] # 0
             THEN [inDegree EXCEPT ![vertex] = @ + 1] ELSE inDegree)

\* First loop nest of hasCycle: the in-degree of every vertex.
RECURSIVE hasCycleInDegree(_, _, _, _)
hasCycleInDegree(g, vertex, edge, inDegree) ==
    IF vertex >= g.numVertices THEN inDegree
    ELSE IF edge >= g.numVertices THEN hasCycleInDegree(g, vertex + 1, 0, inDegree)
    ELSE hasCycleInDegree(g, vertex, edge + 1,
             IF g.adjacencyMatrix[vertex][edge] # 0
             THEN [inDegree EXCEPT ![edge] = @ + 1] ELSE inDegree)

\* The second loop of hasCycle queueing every vertex of in-degree at most one.
RECURSIVE hasCycleSeedAtMostOne(_, _, _, _)
hasCycleSeedAtMostOne(g, u, inDegree, toTraverse) ==
    IF u >= g.numVertices THEN toTraverse
    ELSE hasCycleSeedAtMostOne(g, u + 1, inDegree,
             IF inDegree[u] <= 1 THEN Append(toTraverse, u) ELSE toTraverse)

\* Second loop of hasCycle: the queue of the zero in-degree vertices.
RECURSIVE hasCycleSeed(_, _, _, _)
hasCycleSeed(g, u, inDegree, toTraverse) ==
    IF u >= g.numVertices THEN toTraverse
    ELSE hasCycleSeed(g, u + 1, inDegree,
             IF inDegree[u] = 0 THEN Append(toTraverse, u) ELSE toTraverse)

\* The for loop inside hasCycle's while loop; st carries inDegree and the queue.
RECURSIVE hasCycleRelax(_, _, _, _)
hasCycleRelax(g, sourceVertex, edge, st) ==
    IF edge >= g.numVertices THEN st
    ELSE IF g.adjacencyMatrix[sourceVertex][edge] # 0
    THEN LET inDegree1 == [st.inDegree EXCEPT ![edge] = @ - 1]
         IN  hasCycleRelax(g, sourceVertex, edge + 1,
                 [inDegree |-> inDegree1,
                  toTraverse |-> IF inDegree1[edge] = 0
                                 THEN Append(st.toTraverse, edge) ELSE st.toTraverse])
    ELSE hasCycleRelax(g, sourceVertex, edge + 1, st)

\* The while loop of hasCycle; returns the final visited counter.
RECURSIVE hasCycleLoop(_, _, _, _)
hasCycleLoop(g, inDegree, toTraverse, visited) ==
    IF toTraverse = <<>> THEN visited
    ELSE LET st == hasCycleRelax(g, Head(toTraverse), 0,
                       [inDegree |-> inDegree, toTraverse |-> Tail(toTraverse)])
         IN  hasCycleLoop(g, st.inDegree, st.toTraverse, visited + 1)

\* hasCycle with the sense of its final comparison inverted.
hasCycleInverted(g) ==
    LET inDegree == hasCycleInDegree(g, 0, 0, [v \in Vertices(g) |-> 0])
    IN  hasCycleLoop(g, inDegree, hasCycleSeed(g, 0, inDegree, <<>>), 0) = g.numVertices

hasCycle(g) ==
    LET inDegree == hasCycleInDegree(g, 0, 0, [v \in Vertices(g) |-> 0])
    IN  hasCycleLoop(g, inDegree, hasCycleSeed(g, 0, inDegree, <<>>), 0) # g.numVertices

----------------------------------------------------------------------------
(* Hamiltonian search *)

\* findHamiltonianCyclesHelper; st carries the three reference parameters
\* path, visited and cycles, and the value is their state on return.
\* hamiltonianNeighbors is the loop over the neighbours with its push,
\* recursive call and pop; findHamiltonianCycles repeats the same loop for
\* the start vertex.
RECURSIVE findHamiltonianCyclesHelper(_, _, _, _), hamiltonianNeighbors(_, _, _, _, _)
findHamiltonianCyclesHelper(g, startVertex, currentVertex, st) ==
    IF Len(st.path) = g.numVertices
    THEN IF isAdjacent(g, currentVertex, startVertex)
         THEN [st EXCEPT !.cycles = Append(@, Append(st.path, startVertex))]
         ELSE st
    ELSE hamiltonianNeighbors(g, startVertex, getNeighbors(g, currentVertex), 1, st)

hamiltonianNeighbors(g, startVertex, neighbors, i, st) ==
    IF i > Len(neighbors) THEN st
    ELSE LET neighbor == neighbors[i]
         IN  IF ~st.visited[neighbor]
             THEN LET pushed == [st EXCEPT !.visited[neighbor] = TRUE,
                                           !.path = Append(@, neighbor)]
                      back == findHamiltonianCyclesHelper(g, startVertex, neighbor, pushed)
                      popped == [back EXCEPT !.path = SubSeq(@, 1, Len(@) - 1),
                                             !.visited[neighbor] = FALSE]
                  IN  hamiltonianNeighbors(g, startVertex, neighbors, i + 1, popped)
             ELSE hamiltonianNeighbors(g, startVertex, neighbors, i + 1, st)

\* hamiltonianSearch reporting every cycle once, from start vertex 0 only.
hamiltonianSearchFromZero(g, startVertex, hamiltonianCycles) ==
    IF startVertex >= g.numVertices \/ startVertex >= 1 THEN hamiltonianCycles
    ELSE LET st == [path |-> <<startVertex>>,
                    visited |-> [v \in Vertices(g) |-> v = startVertex],
                    cycles |-> hamiltonianCycles]
         IN  hamiltonianNeighbors(g, startVertex, getNeighbors(g, startVertex), 1, st).cycles

\* The search proper of findHamiltonianCycles: the loop over the start vertices.
RECURSIVE hamiltonianSearch(_, _, _)
hamiltonianSearch(g, startVertex, hamiltonianCycles) ==
    IF startVertex >= g.numVertices THEN hamiltonianCycles
    ELSE LET st == [path |-> <<startVertex>>,
                    visited |-> [v \in Vertices(g) |-> v = startVertex],
                    cycles |-> hamiltonianCycles]
             done == hamiltonianNeighbors(g, startVertex, getNeighbors(g, startVertex), 1, st)
         IN  hamiltonianSearch(g, startVertex + 1, done.cycles)

\* findHamiltonianCycles without the special case of the single vertex.
findHamiltonianCyclesNoSingle(g) ==
    IF ~isConnected(g) THEN <<>>
    ELSE IF ~hasCycle(g) THEN <<>>
    ELSE hamiltonianSearch(g, 0, <<>>)

findHamiltonianCycles(g) ==
    IF g.numVertices = 1 /\ isAdjacent(g, 0, 0) THEN << <<0, 0>> >>
    ELSE IF g.numVertices = 1 THEN <<>>
    ELSE IF ~isConnected(g) THEN <<>>
    ELSE IF ~hasCycle(g) THEN <<>>
    ELSE hamiltonianSearch(g, 0, <<>>)

hasHamiltonianCycle(g) == findHamiltonianCycles(g) # <<>>

----------------------------------------------------------------------------
(* Store: edge insertion, as far as the optimizer uses it.  A mutator yields
   the graph after the call and how the call ended. *)

\* addEdgeWeighted storing the weight before it tests it.
addEdgeWeightedStoreFirst(g, from, to, weight) ==
    IF ~validVertex(g, from) \/ ~validVertex(g, to)
    THEN [status |-> "out_of_range", graph |-> g]
    ELSE IF weight <= 0
    THEN [status |-> "invalid_argument",
          graph |-> [g EXCEPT !.adjacencyMatrix[from][to] = weight]]
    ELSE [status |-> "ok",
          graph |-> [g EXCEPT !.adjacencyMatrix[from][to] = weight]]

\* Graph::addEdge(size_t from, size_t to, int weight)
addEdgeWeighted(g, from, to, weight) ==
    IF ~validVertex(g, from) \/ ~validVertex(g, to)
    THEN [status |-> "out_of_range", graph |-> g]
    ELSE IF weight <= 0
    THEN [status |-> "invalid_argument", graph |-> g]
    ELSE [status |-> "ok",
          graph |-> [g EXCEPT !.adjacencyMatrix[from][to] = weight]]

addUndirectedEdge(g, from, to, weight) ==
    LET first == addEdgeWeighted(g, from, to, weight)
    IN  IF first.status # "ok" THEN first
        ELSE addEdgeWeighted(first.graph, to, from, weight)

----------------------------------------------------------------------------
(* Store: structural mutation.  A std::vector is a function on 0 .. size-1;
   the matrix is a vector of row vectors, each with a size of its own. *)

VecSize(v) == Cardinality(DOMAIN v)

\* std::vector<T>(n, x)
VecFilled(n, x) == [i \in 0 .. (n - 1) |-> x]

\* v.push_back(x), v.emplace_back(...)
PushBack(v, x) == [i \in 0 .. VecSize(v) |-> IF i < VecSize(v) THEN v[i] ELSE x]

\* v.erase(v.begin() + pos)
Erase(v, pos) == [i \in 0 .. (VecSize(v) - 2) |-> IF i < pos THEN v[i] ELSE v[i + 1]]

\* addVertex without the push_back onto the rows already there.
addVertexNewRowOnly(g) ==
    LET n == g.numVertices + 1
    IN  [g EXCEPT !.numVertices = n,
                  !.adjacencyMatrix = PushBack(g.adjacencyMatrix, VecFilled(n, 0))]

\* Graph::addVertex()
addVertex(g) ==
    LET n == g.numVertices + 1
        withRow == PushBack(g.adjacencyMatrix, VecFilled(n, 0))
    IN  [g EXCEPT !.numVertices = n,
                  !.adjacencyMatrix =
                      [i \in DOMAIN withRow |->
                          IF i < n - 1 THEN PushBack(withRow[i], 0) ELSE withRow[i]]]

\* removeVertex erasing the row only.
removeVertexRowOnly(g, vertex) ==
    IF ~validVertex(g, vertex)
    THEN [status |-> "out_of_range", graph |-> g]
    ELSE [status |-> "ok",
          graph |-> [g EXCEPT !.numVertices = g.numVertices - 1,
                              !.adjacencyMatrix = Erase(g.adjacencyMatrix, vertex)]]

\* removeVertex erasing row vertex and the column after it.
removeVertexNextColumn(g, vertex) ==
    IF ~validVertex(g, vertex)
    THEN [status |-> "out_of_range", graph |-> g]
    ELSE LET rows == Erase(g.adjacencyMatrix, vertex)
             col == IF vertex + 1 < g.numVertices THEN vertex + 1 ELSE vertex
         IN  [status |-> "ok",
              graph |-> [g EXCEPT !.numVertices = g.numVertices - 1,
                                  !.adjacencyMatrix =
                                      [i \in DOMAIN rows |-> Erase(rows[i], col)]]]

\* Graph::removeVertex(size_t vertex)
removeVertex(g, vertex) ==
    IF ~validVertex(g, vertex)
    THEN [status |-> "out_of_range", graph |-> g]
    ELSE LET rows == Erase(g.adjacencyMatrix, vertex)
         IN  [status |-> "ok",
              graph |-> [g EXCEPT !.numVertices = g.numVertices - 1,
                                  !.adjacencyMatrix =
                                      [i \in DOMAIN rows |-> Erase(rows[i], vertex)]]]

\* addEdge counting the insertions in the cell.
addEdgeIncrement(g, from, to) ==
    IF ~validVertex(g, from) \/ ~validVertex(g, to)
    THEN [status |-> "out_of_range", graph |-> g]
    ELSE [status |-> "ok",
          graph |-> [g EXCEPT !.adjacencyMatrix[from][to] = g.adjacencyMatrix[from][to] + 1]]

\* Graph::addEdge(size_t from, size_t to)
addEdge(g, from, to) ==
    IF ~validVertex(g, from) \/ ~validVertex(g, to)
    THEN [status |-> "out_of_range", graph |-> g]
    ELSE [status |-> "ok", graph |-> [g EXCEPT !.adjacencyMatrix[from][to] = 1]]

\* Graph::removeEdge(size_t from, size_t to)
removeEdge(g, from, to) ==
    IF ~validVertex(g, from) \/ ~validVertex(g, to)
    THEN [status |-> "out_of_range", graph |-> g]
    ELSE [status |-> "ok", graph |-> [g EXCEPT !.adjacencyMatrix[from][to] = 0]]

\* Graph::clear()
clear(g) == [g EXCEPT !.numVertices = 0, !.adjacencyMatrix = <<>>]

\* getEdgeWeight without the isAdjacent test.
getEdgeWeightNoAdjacencyTest(g, from, to) ==
    IF ~validVertex(g, from) \/ ~validVertex(g, to)
    THEN [status |-> "out_of_range"]
    ELSE [status |-> "ok", value |-> g.adjacencyMatrix[from][to]]

\* Graph::getEdgeWeight(size_t from, size_t to); the out_of_range is the one
\* isAdjacent throws.
getEdgeWeight(g, from, to) ==
    IF ~validVertex(g, from) \/ ~validVertex(g, to)
    THEN [status |-> "out_of_range"]
    ELSE IF ~isAdjacent(g, from, to)
    THEN [status |-> "invalid_argument"]
    ELSE [status |-> "ok", value |-> g.adjacencyMatrix[from][to]]

\* The count getDegree returns for a valid vertex.
getDegree(g, vertex) ==
    Cardinality({i \in DOMAIN g.adjacencyMatrix[vertex] : g.adjacencyMatrix[vertex][i] # 0})

----------------------------------------------------------------------------
(* Store: copy and move.  A pair [dst, src] is the two objects after the
   member has run with *this = dst and other = src. *)

\* Graph::Graph(const Graph& other), and operator=(const Graph&) when
\* this != &other: the three members are copied, the matrix element by
\* element.
copyFrom(dst, src) ==
    [dst |-> [numVertices |-> src.numVertices, isWeighted |-> src.isWeighted,
              adjacencyMatrix |-> src.adjacencyMatrix],
     src |-> src]

\* moveFrom leaving the source as it was.
moveFromKeepSource(dst, src) ==
    [dst |-> [numVertices |-> src.numVertices, isWeighted |-> src.isWeighted,
              adjacencyMatrix |-> src.adjacencyMatrix],
     src |-> src]

\* Graph::Graph(Graph&& other), and operator=(Graph&&) when this != &other:
\* whatever the moved-from vector holds, other.clear() empties it.
moveFrom(dst, src) ==
    [dst |-> [numVertices |-> src.numVertices, isWeighted |-> src.isWeighted,
              adjacencyMatrix |-> src.adjacencyMatrix],
     src |-> clear([src EXCEPT !.numVertices = 0])]

----------------------------------------------------------------------------
(* Completeness *)

\* isCompleteFrom testing the diagonal cells as well.
RECURSIVE isCompleteFromWithLoops(_, _, _)
isCompleteFromWithLoops(g, row, col) ==
    IF row >= g.numVertices THEN TRUE
    ELSE IF col >= g.numVertices THEN isCompleteFromWithLoops(g, row + 1, 0)
    ELSE IF g.adjacencyMatrix[row][col] = 0 THEN FALSE
    ELSE isCompleteFromWithLoops(g, row, col + 1)

\* The two nested loops of isComplete from cell (row, col) on.
RECURSIVE isCompleteFrom(_, _, _)
isCompleteFrom(g, row, col) ==
    IF row >= g.numVertices THEN TRUE
    ELSE IF col >= g.numVertices THEN isCompleteFrom(g, row + 1, 0)
    ELSE IF row # col /\ g.adjacencyMatrix[row][col] = 0 THEN FALSE
    ELSE isCompleteFrom(g, row, col + 1)

isComplete(g) == isCompleteFrom(g, 0, 0)

----------------------------------------------------------------------------
(* Optimizer: minimum spanning tree (Prim) *)

\* The scan for the vertex of minimum key not yet in the tree; sel carries
\* minKey and u.
RECURSIVE mstSelect(_, _, _, _, _)
mstSelect(g, v, inMST, key, sel) ==
    IF v >= g.numVertices THEN sel
    ELSE mstSelect(g, v + 1, inMST, key,
             IF ~inMST[v] /\ key[v] < sel.minKey
             THEN [minKey |-> key[v], u |-> v] ELSE sel)

\* The loop updating key and parent of the vertices adjacent to u.
RECURSIVE mstRelax(_, _, _, _)
mstRelax(g, u, v, st) ==
    IF v >= g.numVertices THEN st
    ELSE mstRelax(g, u, v + 1,
             IF /\ g.adjacencyMatrix[u][v] > 0
                /\ ~st.inMST[v]
                /\ g.adjacencyMatrix[u][v] < st.key[v]
             THEN [st EXCEPT !.parent[v] = u, !.key[v] = g.adjacencyMatrix[u][v]]
             ELSE st)

\* The main loop; st carries mst, inMST, key and parent.  When the scan
\* finds no vertex, u stays -1 and inMST[u] is an access outside the vector:
\* the loop ends "undefined" with the tree built so far.
RECURSIVE mstLoop(_, _, _)
mstLoop(g, count, st) ==
    IF count >= g.numVertices THEN [status |-> "ok", value |-> st.mst]
    ELSE LET u == mstSelect(g, 0, st.inMST, st.key, [minKey |-> IntMax, u |-> -1]).u
         IN  IF u = -1 THEN [status |-> "undefined", value |-> st.mst]
             ELSE LET added ==
                          IF st.parent[u] # -1
                          THEN addUndirectedEdge(st.mst, st.parent[u], u,
                                                 g.adjacencyMatrix[st.parent[u]][u])
                          ELSE [status |-> "ok", graph |-> st.mst]
                  IN  IF added.status # "ok" THEN [status |-> added.status]
                      ELSE mstLoop(g, count + 1,
                               mstRelax(g, u, 0,
                                   [st EXCEPT !.mst = added.graph, !.inMST[u] = TRUE]))

ConnectedMessage == "MST requires a connected graph."
WeightedMessage == "MST algorithm requires a weighted graph."

\* minimumSpanningTree testing the weighted flag before the connectivity.
minimumSpanningTreeFlagFirst(g) ==
    IF g.numVertices = 0 THEN [status |-> "ok", value |-> Graph(0, FALSE)]
    ELSE IF ~g.isWeighted THEN [status |-> "runtime_error", what |-> WeightedMessage]
    ELSE IF ~isConnected(g) THEN [status |-> "runtime_error", what |-> ConnectedMessage]
    ELSE mstLoop(g, 0,
             [mst |-> Graph(g.numVertices, TRUE),
              inMST |-> [v \in Vertices(g) |-> FALSE],
              key |-> [v \in Vertices(g) |-> IF v = 0 THEN 0 ELSE IntMax],
              parent |-> [v \in Vertices(g) |-> -1]])

minimumSpanningTree(g) ==
    IF g.numVertices = 0 THEN [status |-> "ok", value |-> Graph(0, FALSE)]
    ELSE IF ~isConnected(g) THEN [status |-> "runtime_error", what |-> ConnectedMessage]
    ELSE IF ~g.isWeighted THEN [status |-> "runtime_error", what |-> WeightedMessage]
    ELSE mstLoop(g, 0,
             [mst |-> Graph(g.numVertices, TRUE),
              inMST |-> [v \in Vertices(g) |-> FALSE],
              key |-> [v \in Vertices(g) |-> IF v = 0 THEN 0 ELSE IntMax],
              parent |-> [v \in Vertices(g) |-> -1]])

----------------------------------------------------------------------------
(* Optimizer: traveling salesman *)

Reverse(s) == [i \in 1 .. Len(s) |-> s[Len(s) + 1 - i]]

\* A next permutation that starts over after the last ordering and reports
\* true there as well.
nextPermutationCyclic(s) ==
    LET n == Len(s)
        ascents == {i \in 1 .. (n - 1) : s[i] < s[i + 1]}
    IN  IF ascents = {} THEN [vertices |-> Reverse(s), more |-> TRUE]
        ELSE LET i == CHOOSE a \in ascents : \A b \in ascents : b <= a
                 j == CHOOSE a \in (i + 1) .. n :
                          s[a] > s[i] /\ \A b \in (i + 1) .. n : s[b] > s[i] => b <= a
                 swapped == [s EXCEPT ![i] = s[j], ![j] = s[i]]
             IN  [vertices |-> SubSeq(swapped, 1, i) \o Reverse(SubSeq(swapped, i + 1, n)),
                  more |-> TRUE]

\* std::next_permutation: the next ordering in lexicographic order and true,
\* or the first ordering and false after the last one.
nextPermutation(s) ==
    LET n == Len(s)
        ascents == {i \in 1 .. (n - 1) : s[i] < s[i + 1]}
    IN  IF ascents = {} THEN [vertices |-> Reverse(s), more |-> FALSE]
        ELSE LET i == CHOOSE a \in ascents : \A b \in ascents : b <= a
                 j == CHOOSE a \in (i + 1) .. n :
                          s[a] > s[i] /\ \A b \in (i + 1) .. n : s[b] > s[i] => b <= a
                 swapped == [s EXCEPT ![i] = s[j], ![j] = s[i]]
             IN  [vertices |-> SubSeq(swapped, 1, i) \o Reverse(SubSeq(swapped, i + 1, n)),
                  more |-> TRUE]

\* The loop adding the edge weights along currentPath.
RECURSIVE tspDistance(_, _, _, _)
tspDistance(g, currentPath, i, currentDistance) ==
    IF i >= Len(currentPath) THEN currentDistance
    ELSE tspDistance(g, currentPath, i + 1,
             IntAdd(currentDistance, g.adjacencyMatrix[currentPath[i]][currentPath[i + 1]]))

\* The do-while loop over the permutations; best carries bestPath and
\* bestDistance.
RECURSIVE tspLoop(_, _, _)
tspLoop(g, vertices, best) ==
    LET currentPath == <<0>> \o vertices \o <<0>>
        currentDistance == tspDistance(g, currentPath, 1, 0)
        best1 == IF currentDistance < best.bestDistance
                 THEN [bestPath |-> currentPath, bestDistance |-> currentDistance]
                 ELSE best
        next == nextPermutation(vertices)
    IN  IF next.more THEN tspLoop(g, next.vertices, best1) ELSE best1

\* travelingSalesman without the test of the vertex count.
travelingSalesmanNoCountTest(g) ==
    IF ~isComplete(g) THEN [status |-> "invalid_argument"]
    ELSE IF g.numVertices <= 2
    THEN [status |-> "ok", value |-> <<<<0, 1, 0>>, 0>>]
    ELSE LET best == tspLoop(g, [i \in 1 .. (g.numVertices - 1) |-> i],
                             [bestPath |-> <<>>, bestDistance |-> IntMax])
         IN  [status |-> "ok", value |-> <<best.bestPath, best.bestDistance>>]

travelingSalesman(g) ==
    IF ~isComplete(g) THEN [status |-> "invalid_argument"]
    ELSE IF g.numVertices < 2 THEN [status |-> "invalid_argument"]
    ELSE IF g.numVertices = 2
    THEN [status |-> "ok",
          value |-> <<<<0, 1, 0>>, IntAdd(g.adjacencyMatrix[0][1], g.adjacencyMatrix[1][0])>>]
    ELSE LET best == tspLoop(g, [i \in 1 .. (g.numVertices - 1) |-> i],
                             [bestPath |-> <<>>, bestDistance |-> IntMax])
         IN  [status |-> "ok", value |-> <<best.bestPath, best.bestDistance>>]

----------------------------------------------------------------------------
(* The public calls as actions.  Every call here is a const member function:
   it leaves the graph alone and records its outcome in ret.  A behaviour is
   one call on a constructed graph: the outcome of a const call depends on
   the graph alone, not on the calls before it. *)

NoCall == [op |-> "none"]

Returned(op, args, value) == [op |-> op, args |-> args, status |-> "ok", value |-> value]
Threw(op, args, what) == [op |-> op, args |-> args, status |-> what]

FindHamiltonianCycles ==
    /\ ret = NoCall
    /\ ret' = Returned("findHamiltonianCycles", <<>>, findHamiltonianCycles(this))
    /\ UNCHANGED <<numVertices, isWeighted, adjacencyMatrix, other, frame>>

HasHamiltonianCycle ==
    /\ ret = NoCall
    /\ ret' = Returned("hasHamiltonianCycle", <<>>, hasHamiltonianCycle(this))
    /\ UNCHANGED <<numVertices, isWeighted, adjacencyMatrix, other, frame>>

IsConnected ==
    /\ ret = NoCall
    /\ ret' = Returned("isConnected", <<>>, isConnected(this))
    /\ UNCHANGED <<numVertices, isWeighted, adjacencyMatrix, other, frame>>

HasCycle ==
    /\ ret = NoCall
    /\ ret' = Returned("hasCycle", <<>>, hasCycle(this))
    /\ UNCHANGED <<numVertices, isWeighted, adjacencyMatrix, other, frame>>

IsComplete ==
    /\ ret = NoCall
    /\ ret' = Returned("isComplete", <<>>, isComplete(this))
    /\ UNCHANGED <<numVertices, isWeighted, adjacencyMatrix, other, frame>>

DepthFirstTraversal ==
    \E startVertex \in 0 .. numVertices :
        /\ ret = NoCall
        /\ ret' = IF ~validVertex(this, startVertex)
                  THEN Threw("depthFirstTraversal", <<startVertex>>, "out_of_range")
                  ELSE Returned("depthFirstTraversal", <<startVertex>>,
                                depthFirstTraversal(this, startVertex))
        /\ UNCHANGED <<numVertices, isWeighted, adjacencyMatrix, other, frame>>

BreadthFirstTraversal ==
    \E startVertex \in 0 .. numVertices :
        /\ ret = NoCall
        /\ ret' = IF ~validVertex(this, startVertex)
                  THEN Threw("breadthFirstTraversal", <<startVertex>>, "out_of_range")
                  ELSE Returned("breadthFirstTraversal", <<startVertex>>,
                                breadthFirstTraversal(this, startVertex))
        /\ UNCHANGED <<numVertices, isWeighted, adjacencyMatrix, other, frame>>

\* The graphs of Spec: any graph the constructors and the two addEdge forms
\* build, within the bounds.
CellValues(n) == IF n <= MaxWeightedV THEN {0, 1, MaxWeight} ELSE {0, 1}

Init ==
    /\ numVertices \in 0 .. MaxV
    /\ isWeighted \in (IF numVertices <= MaxWeightedV THEN BOOLEAN ELSE {FALSE})
    /\ adjacencyMatrix \in
           [0 .. (numVertices - 1) -> [0 .. (numVertices - 1) -> CellValues(numVertices)]]
    /\ other = NoGraph
    /\ frame = NoFrame
    /\ ret = NoCall

Next ==
    \/ FindHamiltonianCycles
    \/ HasHamiltonianCycle
    \/ IsConnected
    \/ HasCycle
    \/ IsComplete

Spec == Init /\ [][Next]_vars

NextTraversal ==
    \/ DepthFirstTraversal
    \/ BreadthFirstTraversal

SpecTraversal == Init /\ [][NextTraversal]_vars

\* What a call that ran into undefined behaviour may end as: the process is
\* aborted, an exception leaves the call, or the call returns what it built.
UndefinedOutcomes(op, partial) ==
    {Threw(op, <<>>, "abort"), Threw(op, <<>>, "out_of_range"), Returned(op, <<>>, partial)}

MinimumSpanningTree ==
    /\ ret = NoCall
    /\ LET r == minimumSpanningTree(this)
       IN  IF r.status = "undefined"
           THEN ret' \in UndefinedOutcomes("minimumSpanningTree", r.value)
           ELSE IF r.status = "ok"
           THEN ret' = Returned("minimumSpanningTree", <<>>, r.value)
           ELSE IF r.status = "runtime_error"
           THEN ret' = [op |-> "minimumSpanningTree", args |-> <<>>,
                        status |-> "runtime_error", what |-> r.what]
           ELSE ret' = Threw("minimumSpanningTree", <<>>, r.status)
    /\ UNCHANGED <<numVertices, isWeighted, adjacencyMatrix, other, frame>>

TravelingSalesman ==
    /\ ret = NoCall
    /\ LET r == travelingSalesman(this)
       IN  ret' = IF r.status = "ok"
                  THEN Returned("travelingSalesman", <<>>, r.value)
                  ELSE Threw("travelingSalesman", <<>>, r.status)
    /\ UNCHANGED <<numVertices, isWeighted, adjacencyMatrix, other, frame>>

\* The graphs of SpecOpt: graphs the constructors and the addEdge forms
\* build, within the bounds; an edge is absent, light, or as heavy as an int
\* can be.
OptWeights == (0 .. OptMaxWeight) \cup {IntMax}

InitOpt ==
    /\ numVertices \in 0 .. OptMaxV
    /\ isWeighted \in BOOLEAN
    /\ adjacencyMatrix \in
           {m \in [0 .. (numVertices - 1) -> [0 .. (numVertices - 1) -> OptWeights]] :
               \A i \in 0 .. (numVertices - 1) : m[i][i] <= MaxLoopWeight}
    /\ other = NoGraph
    /\ frame = NoFrame
    /\ ret = NoCall

NextOpt ==
    \/ MinimumSpanningTree
    \/ TravelingSalesman

SpecOpt == InitOpt /\ [][NextOpt]_vars

----------------------------------------------------------------------------
(* Strong connectivity: one call on a constructed graph. *)

IsStronglyConnected ==
    /\ ret = NoCall
    /\ ret' = Returned("isStronglyConnected", <<>>, isStronglyConnected(this))
    /\ UNCHANGED <<numVertices, isWeighted, adjacencyMatrix, other, frame>>

AreVerticesStronglyConnected ==
    \E u, v \in 0 .. numVertices :
        /\ ret = NoCall
        /\ ret' = IF ~validVertex(this, u) \/ ~validVertex(this, v)
                  THEN Threw("areVerticesStronglyConnected", <<u, v>>, "out_of_range")
                  ELSE Returned("areVerticesStronglyConnected", <<u, v>>,
                                areVerticesStronglyConnected(this, u, v))
        /\ UNCHANGED <<numVertices, isWeighted, adjacencyMatrix, other, frame>>

NextStrong ==
    \/ IsStronglyConnected
    \/ AreVerticesStronglyConnected

SpecStrong == Init /\ [][NextStrong]_vars

----------------------------------------------------------------------------
(* Store calls.  A mutator runs on one of the constructed objects, named by
   recv; ret records the object in its field on. *)

Receivers == IF other = NoGraph THEN {"this"} ELSE {"this", "other"}

Object(recv) == IF recv = "this" THEN this ELSE other

\* The members of the object recv after a call, the other object untouched.
SetObject(recv, g) ==
    IF recv = "this"
    THEN /\ numVertices' = g.numVertices
         /\ isWeighted' = g.isWeighted
         /\ adjacencyMatrix' = g.adjacencyMatrix
         /\ UNCHANGED <<other, frame>>
    ELSE /\ other' = g
         /\ UNCHANGED <<numVertices, isWeighted, adjacencyMatrix, frame>>

Called(op, recv, args, status) ==
    [op |-> op, on |-> recv, args |-> args, status |-> status]

\* The int weights the calls of SpecStore are tried with: non-positive ones
\* included.
WeightInputs == (0 - 1) .. MaxWeight

AddVertex(recv) ==
    /\ SetObject(recv, addVertex(Object(recv)))
    /\ ret' = Called("addVertex", recv, <<>>, "ok")

RemoveVertex(recv) ==
    \E vertex \in 0 .. Object(recv).numVertices :
        LET r == removeVertex(Object(recv), vertex)
        IN  /\ SetObject(recv, r.graph)
            /\ ret' = Called("removeVertex", recv, <<vertex>>, r.status)

AddEdge(recv) ==
    \E from, to \in 0 .. Object(recv).numVertices :
        LET r == addEdge(Object(recv), from, to)
        IN  /\ SetObject(recv, r.graph)
            /\ ret' = Called("addEdge", recv, <<from, to>>, r.status)

AddEdgeWeighted(recv, weights) ==
    \E from, to \in 0 .. Object(recv).numVertices, weight \in weights :
        LET r == addEdgeWeighted(Object(recv), from, to, weight)
        IN  /\ SetObject(recv, r.graph)
            /\ ret' = Called("addEdgeWeighted", recv, <<from, to, weight>>, r.status)

AddUndirectedEdge(recv, weights) ==
    \E from, to \in 0 .. Object(recv).numVertices, weight \in weights :
        LET r == addUndirectedEdge(Object(recv), from, to, weight)
        IN  /\ SetObject(recv, r.graph)
            /\ ret' = Called("addUndirectedEdge", recv, <<from, to, weight>>, r.status)

RemoveEdge(recv) ==
    \E from, to \in 0 .. Object(recv).numVertices :
        LET r == removeEdge(Object(recv), from, to)
        IN  /\ SetObject(recv, r.graph)
            /\ ret' = Called("removeEdge", recv, <<from, to>>, r.status)

Clear(recv) ==
    /\ SetObject(recv, clear(Object(recv)))
    /\ ret' = Called("clear", recv, <<>>, "ok")

(* Point queries, on this. *)

IsAdjacent ==
    \E v1, v2 \in 0 .. numVertices :
        /\ ret' = IF ~validVertex(this, v1) \/ ~validVertex(this, v2)
                  THEN Threw("isAdjacent", <<v1, v2>>, "out_of_range")
                  ELSE Returned("isAdjacent", <<v1, v2>>, isAdjacent(this, v1, v2))
        /\ UNCHANGED <<numVertices, isWeighted, adjacencyMatrix, other, frame>>

GetEdgeWeight ==
    \E from, to \in 0 .. numVertices :
        /\ LET r == getEdgeWeight(this, from, to)
           IN  ret' = IF r.status = "ok"
                      THEN Returned("getEdgeWeight", <<from, to>>, r.value)
                      ELSE Threw("getEdgeWeight", <<from, to>>, r.status)
        /\ UNCHANGED <<numVertices, isWeighted, adjacencyMatrix, other, frame>>

GetNeighbors ==
    \E vertex \in 0 .. numVertices :
        /\ ret' = IF ~validVertex(this, vertex)
                  THEN Threw("getNeighbors", <<vertex>>, "out_of_range")
                  ELSE Returned("getNeighbors", <<vertex>>, getNeighbors(this, vertex))
        /\ UNCHANGED <<numVertices, isWeighted, adjacencyMatrix, other, frame>>

GetDegree ==
    \E vertex \in 0 .. numVertices :
        /\ ret' = IF ~validVertex(this, vertex)
                  THEN Threw("getDegree", <<vertex>>, "out_of_range")
                  ELSE Returned("getDegree", <<vertex>>, getDegree(this, vertex))
        /\ UNCHANGED <<numVertices, isWeighted, adjacencyMatrix, other, frame>>

\* SpecStore: one call that takes a vertex index, or one mutator, on any
\* graph of Init.
NextStore ==
    \/ ret = NoCall /\ AddVertex("this")
    \/ ret = NoCall /\ RemoveVertex("this")
    \/ ret = NoCall /\ AddEdge("this")
    \/ ret = NoCall /\ AddEdgeWeighted("this", WeightInputs)
    \/ ret = NoCall /\ AddUndirectedEdge("this", WeightInputs)
    \/ ret = NoCall /\ RemoveEdge("this")
    \/ ret = NoCall /\ Clear("this")
    \/ ret = NoCall /\ IsAdjacent
    \/ ret = NoCall /\ GetEdgeWeight
    \/ ret = NoCall /\ GetNeighbors
    \/ ret = NoCall /\ GetDegree
    \/ DepthFirstTraversal
    \/ BreadthFirstTraversal
    \/ AreVerticesStronglyConnected

SpecStore == Init /\ [][NextStore]_vars

----------------------------------------------------------------------------
(* Object lifecycle: a graph is constructed, a second object is constructed
   from it or assigned to and from it, both are mutated in any order. *)

\* Largest vertex count of the graphs of SpecLife, and the largest weight
\* its calls are tried with (0 is the rejected one).
LifeMaxV == 2
LifeMaxWeight == 1
LifeWeightInputs == 0 .. LifeMaxWeight

SetObjects(thisGraph, otherGraph) ==
    /\ numVertices' = thisGraph.numVertices
    /\ isWeighted' = thisGraph.isWeighted
    /\ adjacencyMatrix' = thisGraph.adjacencyMatrix
    /\ other' = otherGraph
    /\ UNCHANGED frame

\* Graph other(*this);
CopyConstruct ==
    /\ other = NoGraph
    /\ LET r == copyFrom(other, this)
       IN  SetObjects(r.src, r.dst)
    /\ ret' = Called("copyConstruct", "other", <<"this">>, "ok")

\* Graph other(std::move(*this));
MoveConstruct ==
    /\ other = NoGraph
    /\ LET r == moveFrom(other, this)
       IN  SetObjects(r.src, r.dst)
    /\ ret' = Called("moveConstruct", "other", <<"this">>, "ok")

\* dst = src; with dst and src the same object the member does nothing.
CopyAssign ==
    \E dst, src \in Receivers :
        /\ IF dst = src THEN SetObjects(this, other)
           ELSE LET r == copyFrom(Object(dst), Object(src))
                IN  IF dst = "this" THEN SetObjects(r.dst, r.src)
                    ELSE SetObjects(r.src, r.dst)
        /\ ret' = Called("copyAssign", dst, <<src>>, "ok")

\* dst = std::move(src); with dst and src the same object the member does
\* nothing.
MoveAssign ==
    \E dst, src \in Receivers :
        /\ IF dst = src THEN SetObjects(this, other)
           ELSE LET r == moveFrom(Object(dst), Object(src))
                IN  IF dst = "this" THEN SetObjects(r.dst, r.src)
                    ELSE SetObjects(r.src, r.dst)
        /\ ret' = Called("moveAssign", dst, <<src>>, "ok")

\* The second object goes out of scope: ~Graph() runs clear().
Destroy ==
    /\ other # NoGraph
    /\ other' = NoGraph
    /\ ret' = Called("destroy", "other", <<>>, "ok")
    /\ UNCHANGED <<numVertices, isWeighted, adjacencyMatrix, frame>>

\* The graphs the three constructors build.
InitLife ==
    /\ numVertices \in 0 .. LifeMaxV
    /\ isWeighted \in BOOLEAN
    /\ adjacencyMatrix = Graph(numVertices, isWeighted).adjacencyMatrix
    /\ other = NoGraph
    /\ frame = NoFrame
    /\ ret = NoCall

NextLife ==
    \/ \E recv \in Receivers : Object(recv).numVertices < LifeMaxV /\ AddVertex(recv)
    \/ \E recv \in Receivers : RemoveVertex(recv)
    \/ \E recv \in Receivers : AddEdge(recv)
    \/ \E recv \in Receivers : AddEdgeWeighted(recv, LifeWeightInputs)
    \/ \E recv \in Receivers : AddUndirectedEdge(recv, LifeWeightInputs)
    \/ \E recv \in Receivers : RemoveEdge(recv)
    \/ \E recv \in Receivers : Clear(recv)
    \/ CopyConstruct
    \/ MoveConstruct
    \/ CopyAssign
    \/ MoveAssign
    \/ Destroy

SpecLife == InitLife /\ [][NextLife]_vars

----------------------------------------------------------------------------
(* The loops step by step.  A call begins on a constructed graph, puts its
   local variables in frame, runs one loop iteration per step, and returns
   through ret.  The graph is const throughout. *)

Idle == ret = NoCall /\ frame = NoFrame

ConstGraph == UNCHANGED <<numVertices, isWeighted, adjacencyMatrix, other>>

Running(op) == frame.op = op

\* depthFirstTraversal up to the while loop of its helper.
DfsBegin ==
    \E startVertex \in 0 .. numVertices :
        /\ Idle
        /\ IF ~validVertex(this, startVertex)
           THEN /\ ret' = Threw("depthFirstTraversal", <<startVertex>>, "out_of_range")
                /\ UNCHANGED frame
           ELSE /\ frame' = [op |-> "depthFirstTraversal",
                             startVertex |-> startVertex,
                             visited |-> [v \in Vertices(this) |-> FALSE],
                             toTraverse |-> <<startVertex>>,
                             result |-> <<>>]
                /\ UNCHANGED ret
        /\ ConstGraph

\* One iteration of the while loop of depthFirstTraversalHelper.
DfsStep ==
    /\ Running("depthFirstTraversal")
    /\ frame.toTraverse # <<>>
    /\ LET currentVertex == frame.toTraverse[Len(frame.toTraverse)]
           popped == SubSeq(frame.toTraverse, 1, Len(frame.toTraverse) - 1)
       IN  IF ~frame.visited[currentVertex]
           THEN LET visited1 == [frame.visited EXCEPT ![currentVertex] = TRUE]
                    neighbors == getNeighbors(this, currentVertex)
                IN  frame' = [frame EXCEPT
                                 !.visited = visited1,
                                 !.result = Append(@, currentVertex),
                                 !.toTraverse =
                                     dfsPush(neighbors, Len(neighbors), visited1, popped)]
           ELSE frame' = [frame EXCEPT !.toTraverse = popped]
    /\ UNCHANGED ret
    /\ ConstGraph

DfsReturn ==
    /\ Running("depthFirstTraversal")
    /\ frame.toTraverse = <<>>
    /\ ret' = Returned("depthFirstTraversal", <<frame.startVertex>>, frame.result)
    /\ frame' = NoFrame
    /\ ConstGraph

\* breadthFirstTraversal up to the while loop of its helper.
BfsBegin ==
    \E startVertex \in 0 .. numVertices :
        /\ Idle
        /\ IF ~validVertex(this, startVertex)
           THEN /\ ret' = Threw("breadthFirstTraversal", <<startVertex>>, "out_of_range")
                /\ UNCHANGED frame
           ELSE /\ frame' = [op |-> "breadthFirstTraversal",
                             startVertex |-> startVertex,
                             visited |-> [v \in Vertices(this) |-> v = startVertex],
                             toTraverse |-> <<startVertex>>,
                             traversal |-> <<>>]
                /\ UNCHANGED ret
        /\ ConstGraph

\* One iteration of the while loop of breadthFirstTraversalHelper.
BfsStep ==
    /\ Running("breadthFirstTraversal")
    /\ frame.toTraverse # <<>>
    /\ LET currentVertex == Head(frame.toTraverse)
           st == bfsEnqueue(getNeighbors(this, currentVertex), 1,
                            [visited |-> frame.visited,
                             toTraverse |-> Tail(frame.toTraverse)])
       IN  frame' = [frame EXCEPT !.visited = st.visited,
                                  !.toTraverse = st.toTraverse,
                                  !.traversal = Append(@, currentVertex)]
    /\ UNCHANGED ret
    /\ ConstGraph

BfsReturn ==
    /\ Running("breadthFirstTraversal")
    /\ frame.toTraverse = <<>>
    /\ ret' = Returned("breadthFirstTraversal", <<frame.startVertex>>, frame.traversal)
    /\ frame' = NoFrame
    /\ ConstGraph

\* hasCycle up to its while loop: the in-degrees and the seeded queue.
\* pushed lists every vertex the queue has received, in order; the queue is
\* what remains of it after visited pops.
HasCycleBegin ==
    /\ Idle
    /\ LET inDegree == hasCycleInDegree(this, 0, 0, [v \in Vertices(this) |-> 0])
           toTraverse == hasCycleSeed(this, 0, inDegree, <<>>)
       IN  frame' = [op |-> "hasCycle", inDegree |-> inDegree,
                     toTraverse |-> toTraverse, visited |-> 0, pushed |-> toTraverse]
    /\ UNCHANGED ret
    /\ ConstGraph

\* One iteration of the while loop of hasCycle.
HasCycleStep ==
    /\ Running("hasCycle")
    /\ frame.toTraverse # <<>>
    /\ LET st == hasCycleRelax(this, Head(frame.toTraverse), 0,
                      [inDegree |-> frame.inDegree, toTraverse |-> Tail(frame.toTraverse)])
           fresh == SubSeq(st.toTraverse, Len(frame.toTraverse), Len(st.toTraverse))
       IN  frame' = [frame EXCEPT !.inDegree = st.inDegree,
                                  !.toTraverse = st.toTraverse,
                                  !.visited = @ + 1,
                                  !.pushed = @ \o fresh]
    /\ UNCHANGED ret
    /\ ConstGraph

HasCycleReturn ==
    /\ Running("hasCycle")
    /\ frame.toTraverse = <<>>
    /\ ret' = Returned("hasCycle", <<>>, frame.visited # numVertices)
    /\ frame' = NoFrame
    /\ ConstGraph

(* The Hamiltonian search step by step.  stack holds the activations under
   way, the innermost last: the loop of findHamiltonianCycles for the current
   start vertex at the bottom, the calls of findHamiltonianCyclesHelper above
   it.  An activation is at its entry test, in its loop over neighbors at
   index i, or done with its test; entryPath and entryVisited keep what
   path and visited were when it was entered. *)

Activation(currentVertex, pc, neighbors, path, visited) ==
    [currentVertex |-> currentVertex, pc |-> pc, neighbors |-> neighbors, i |-> 1,
     entryPath |-> path, entryVisited |-> visited]

\* The body of the loop over startVertex up to its loop over neighbors.
HamStart(startVertex, hamiltonianCycles) ==
    LET visited == [v \in Vertices(this) |-> v = startVertex]
        path == <<startVertex>>
    IN  [op |-> "findHamiltonianCycles", startVertex |-> startVertex,
         path |-> path, visited |-> visited, cycles |-> hamiltonianCycles,
         stack |-> <<Activation(startVertex, "loop", getNeighbors(this, startVertex),
                                path, visited)>>]

Top == frame.stack[Len(frame.stack)]

\* The activation on top has run through its loop or has done its test.
TopFinished ==
    \/ Top.pc = "done"
    \/ Top.pc = "loop" /\ Top.i > Len(Top.neighbors)

\* findHamiltonianCycles up to its search: the special cases and the gates.
HamBegin ==
    /\ Idle
    /\ IF numVertices = 1 /\ isAdjacent(this, 0, 0)
       THEN /\ ret' = Returned("findHamiltonianCycles", <<>>, << <<0, 0>> >>)
            /\ UNCHANGED frame
       ELSE IF numVertices = 1 \/ ~isConnected(this) \/ ~hasCycle(this)
       THEN /\ ret' = Returned("findHamiltonianCycles", <<>>, <<>>)
            /\ UNCHANGED frame
       ELSE /\ frame' = HamStart(0, <<>>)
            /\ UNCHANGED ret
    /\ ConstGraph

\* The loop over neighbors meets an unvisited one: it is marked, pushed on
\* the path, and findHamiltonianCyclesHelper is called for it.
HamCall ==
    /\ Running("findHamiltonianCycles")
    /\ Top.pc = "loop" /\ Top.i <= Len(Top.neighbors)
    /\ ~frame.visited[Top.neighbors[Top.i]]
    /\ LET neighbor == Top.neighbors[Top.i]
           visited1 == [frame.visited EXCEPT ![neighbor] = TRUE]
           path1 == Append(frame.path, neighbor)
       IN  frame' = [frame EXCEPT
                        !.visited = visited1,
                        !.path = path1,
                        !.stack = Append(@, Activation(neighbor, "entry", <<>>,
                                                       path1, visited1))]
    /\ UNCHANGED ret
    /\ ConstGraph

\* The loop over neighbors meets a visited one.
HamSkip ==
    /\ Running("findHamiltonianCycles")
    /\ Top.pc = "loop" /\ Top.i <= Len(Top.neighbors)
    /\ frame.visited[Top.neighbors[Top.i]]
    /\ frame' = [frame EXCEPT !.stack[Len(frame.stack)].i = @ + 1]
    /\ UNCHANGED ret
    /\ ConstGraph

\* The test at the head of findHamiltonianCyclesHelper.
HamEnter ==
    /\ Running("findHamiltonianCycles")
    /\ Top.pc = "entry"
    /\ IF Len(frame.path) = numVertices
       THEN frame' = [frame EXCEPT
                         !.cycles = IF isAdjacent(this, Top.currentVertex, frame.startVertex)
                                    THEN Append(@, Append(frame.path, frame.startVertex))
                                    ELSE @,
                         !.stack[Len(frame.stack)].pc = "done"]
       ELSE frame' = [frame EXCEPT
                         !.stack[Len(frame.stack)].pc = "loop",
                         !.stack[Len(frame.stack)].neighbors =
                             getNeighbors(this, Top.currentVertex)]
    /\ UNCHANGED ret
    /\ ConstGraph

\* The return of findHamiltonianCyclesHelper to a caller that pops the path
\* and leaves the mark set.
HamReturnKeepMark ==
    /\ Running("findHamiltonianCycles")
    /\ Len(frame.stack) > 1
    /\ TopFinished
    /\ frame' = [frame EXCEPT
                     !.path = SubSeq(@, 1, Len(@) - 1),
                     !.stack = [SubSeq(@, 1, Len(@) - 1) EXCEPT ![Len(@) - 1].i = @ + 1]]
    /\ UNCHANGED ret
    /\ ConstGraph

\* findHamiltonianCyclesHelper returns; its caller pops the path, resets the
\* mark and moves to the next neighbor.
HamReturn ==
    /\ Running("findHamiltonianCycles")
    /\ Len(frame.stack) > 1
    /\ TopFinished
    /\ frame' = [frame EXCEPT
                     !.path = SubSeq(@, 1, Len(@) - 1),
                     !.visited[Top.currentVertex] = FALSE,
                     !.stack = [SubSeq(@, 1, Len(@) - 1) EXCEPT ![Len(@) - 1].i = @ + 1]]
    /\ UNCHANGED ret
    /\ ConstGraph

\* The loop over neighbors of a start vertex ends and the next one begins.
HamNextStart ==
    /\ Running("findHamiltonianCycles")
    /\ Len(frame.stack) = 1
    /\ TopFinished
    /\ frame.startVertex + 1 < numVertices
    /\ frame' = HamStart(frame.startVertex + 1, frame.cycles)
    /\ UNCHANGED ret
    /\ ConstGraph

\* The loop over the start vertices ends.
HamFinish ==
    /\ Running("findHamiltonianCycles")
    /\ Len(frame.stack) = 1
    /\ TopFinished
    /\ frame.startVertex + 1 >= numVertices
    /\ ret' = Returned("findHamiltonianCycles", <<>>, frame.cycles)
    /\ frame' = NoFrame
    /\ ConstGraph

(* minimumSpanningTree step by step: an iteration of the main loop is the
   scan for u, then the use of u. *)

RuntimeError(op, what) == [op |-> op, args |-> <<>>, status |-> "runtime_error", what |-> what]

MstBegin ==
    /\ Idle
    /\ IF numVertices = 0
       THEN /\ ret' = Returned("minimumSpanningTree", <<>>, Graph(0, FALSE))
            /\ UNCHANGED frame
       ELSE IF ~isConnected(this)
       THEN /\ ret' = RuntimeError("minimumSpanningTree", ConnectedMessage)
            /\ UNCHANGED frame
       ELSE IF ~isWeighted
       THEN /\ ret' = RuntimeError("minimumSpanningTree", WeightedMessage)
            /\ UNCHANGED frame
       ELSE /\ frame' = [op |-> "minimumSpanningTree", pc |-> "select", count |-> 0,
                         mst |-> Graph(numVertices, TRUE),
                         inMST |-> [v \in Vertices(this) |-> FALSE],
                         key |-> [v \in Vertices(this) |-> IF v = 0 THEN 0 ELSE IntMax],
                         parent |-> [v \in Vertices(this) |-> -1],
                         minKey |-> IntMax, u |-> -1]
            /\ UNCHANGED ret
    /\ ConstGraph

\* The scan for the vertex of minimum key.
MstSelect ==
    /\ Running("minimumSpanningTree")
    /\ frame.pc = "select"
    /\ frame.count < numVertices
    /\ LET sel == mstSelect(this, 0, frame.inMST, frame.key, [minKey |-> IntMax, u |-> -1])
       IN  frame' = [frame EXCEPT !.pc = "add", !.minKey = sel.minKey, !.u = sel.u]
    /\ UNCHANGED ret
    /\ ConstGraph

\* The rest of the iteration for a vertex the scan found.
MstAdd ==
    /\ Running("minimumSpanningTree")
    /\ frame.pc = "add"
    /\ frame.u # -1
    /\ LET u == frame.u
           added == IF frame.parent[u] # -1
                    THEN addUndirectedEdge(frame.mst, frame.parent[u], u,
                                           adjacencyMatrix[frame.parent[u]][u])
                    ELSE [status |-> "ok", graph |-> frame.mst]
       IN  IF added.status # "ok"
           THEN /\ ret' = Threw("minimumSpanningTree", <<>>, added.status)
                /\ frame' = NoFrame
           ELSE /\ frame' = [mstRelax(this, u, 0,
                                 [frame EXCEPT !.mst = added.graph, !.inMST[u] = TRUE])
                                 EXCEPT !.pc = "select", !.count = @ + 1]
                /\ UNCHANGED ret
    /\ ConstGraph

\* The rest of the iteration when the scan found no vertex: u is -1 and
\* inMST[u] is an access outside the vector.
MstUndefined ==
    /\ Running("minimumSpanningTree")
    /\ frame.pc = "add"
    /\ frame.u = -1
    /\ ret' \in UndefinedOutcomes("minimumSpanningTree", frame.mst)
    /\ frame' = NoFrame
    /\ ConstGraph

MstReturn ==
    /\ Running("minimumSpanningTree")
    /\ frame.pc = "select"
    /\ frame.count >= numVertices
    /\ ret' = Returned("minimumSpanningTree", <<>>, frame.mst)
    /\ frame' = NoFrame
    /\ ConstGraph

(* travelingSalesman step by step: a step is one pass of the do-while loop,
   the call of std::next_permutation in its condition included. *)

TspBegin ==
    /\ Idle
    /\ IF ~isComplete(this) \/ numVertices < 2
       THEN /\ ret' = Threw("travelingSalesman", <<>>, "invalid_argument")
            /\ UNCHANGED frame
       ELSE IF numVertices = 2
       THEN /\ ret' = Returned("travelingSalesman", <<>>,
                          <<<<0, 1, 0>>, IntAdd(adjacencyMatrix[0][1], adjacencyMatrix[1][0])>>)
            /\ UNCHANGED frame
       ELSE /\ frame' = [op |-> "travelingSalesman",
                         vertices |-> [i \in 1 .. (numVertices - 1) |-> i],
                         bestPath |-> <<>>, bestDistance |-> IntMax,
                         more |-> TRUE]
            /\ UNCHANGED ret
    /\ ConstGraph

TspStep ==
    /\ Running("travelingSalesman")
    /\ frame.more
    /\ LET currentPath == <<0>> \o frame.vertices \o <<0>>
           currentDistance == tspDistance(this, currentPath, 1, 0)
           better == currentDistance < frame.bestDistance
           next == nextPermutation(frame.vertices)
       IN  frame' = [frame EXCEPT
                        !.bestDistance = IF better THEN currentDistance ELSE @,
                        !.bestPath = IF better THEN currentPath ELSE @,
                        !.vertices = next.vertices,
                        !.more = next.more]
    /\ UNCHANGED ret
    /\ ConstGraph

TspReturn ==
    /\ Running("travelingSalesman")
    /\ ~frame.more
    /\ ret' = Returned("travelingSalesman", <<>>, <<frame.bestPath, frame.bestDistance>>)
    /\ frame' = NoFrame
    /\ ConstGraph

(* The specifications of the loops: one call, step by step, on a
   constructed graph. *)

InitSteps ==
    /\ numVertices \in 0 .. MaxV
    /\ isWeighted \in BOOLEAN
    /\ adjacencyMatrix \in
           [0 .. (numVertices - 1) -> [0 .. (numVertices - 1) -> CellValues(numVertices)]]
    /\ other = NoGraph
    /\ frame = NoFrame
    /\ ret = NoCall

NextSteps ==
    \/ DfsBegin
    \/ DfsStep
    \/ DfsReturn
    \/ BfsBegin
    \/ BfsStep
    \/ BfsReturn
    \/ HasCycleBegin
    \/ HasCycleStep
    \/ HasCycleReturn
    \/ HamBegin
    \/ HamCall
    \/ HamSkip
    \/ HamEnter
    \/ HamReturn
    \/ HamNextStart
    \/ HamFinish
    \/ MstBegin
    \/ MstSelect
    \/ MstAdd
    \/ MstUndefined
    \/ MstReturn
    \/ TspBegin
    \/ TspStep
    \/ TspReturn

SpecSteps == InitSteps /\ [][NextSteps]_vars

\* A call under way is run on: nothing but the call itself can stop it.
SpecStepsFair == SpecSteps /\ WF_vars(NextSteps)

NextOptSteps ==
    \/ MstBegin
    \/ MstSelect
    \/ MstAdd
    \/ MstUndefined
    \/ MstReturn
    \/ TspBegin
    \/ TspStep
    \/ TspReturn

SpecOptSteps == InitOpt /\ [][NextOptSteps]_vars

----------------------------------------------------------------------------
(* Graph-theoretic definitions the claims are stated with; none of them
   uses the operators above. *)

HasEdge(g, i, j) == g.adjacencyMatrix[i][j] # 0

\* Perms[n]: the orderings of the vertices 0..n-1, as sequences.
Perms ==
    [n \in 0 .. MaxV |->
        {p \in [1 .. n -> 0 .. (n - 1)] : \A a, b \in 1 .. n : p[a] = p[b] => a = b}]

SeqElems(s) == {s[i] : i \in 1 .. Len(s)}
NoDuplicates(s) == \A a, b \in 1 .. Len(s) : s[a] = s[b] => a = b

\* c is a directed Hamiltonian cycle of g, reported as the path followed by
\* the start vertex.
IsHamiltonianCycle(g, c) ==
    /\ Len(c) = g.numVertices + 1
    /\ c[1] = c[Len(c)]
    /\ \A v \in Vertices(g) : Cardinality({i \in 1 .. g.numVertices : c[i] = v}) = 1
    /\ \A i \in 1 .. g.numVertices : HasEdge(g, c[i], c[i + 1])

Closed(p) == Append(p, p[1])

\* The vertices reachable from the set S along edges, S included.
RECURSIVE ReachClosure(_, _)
ReachClosure(g, S) ==
    LET T == S \cup {j \in Vertices(g) : \E i \in S : HasEdge(g, i, j)}
    IN  IF T = S THEN S ELSE ReachClosure(g, T)

Reachable(g, s) == ReachClosure(g, {s})

\* Some vertex lies on a directed cycle (a self-loop is one).
HasDirectedCycle(g) ==
    \E v \in Vertices(g) :
        \E j \in Vertices(g) : HasEdge(g, v, j) /\ v \in Reachable(g, j)

\* p is a topological order: every edge goes from an earlier to a later place.
IsTopologicalOrder(g, p) ==
    \A a, b \in 1 .. Len(p) : HasEdge(g, p[a], p[b]) => a < b

\* Every ordered pair of distinct vertices is joined by an edge.
Complete(g) == \A i, j \in Vertices(g) : i # j => HasEdge(g, i, j)

RECURSIVE SumOver(_, _)
\* The sum of f over the finite set S, in unbounded integers.
SumOver(S, f) ==
    IF S = {} THEN 0
    ELSE LET x == CHOOSE y \in S : TRUE IN f[x] + SumOver(S \ {x}, f)

\* The sum of the edge weights along a path, in unbounded integers.
PathCost(g, path) ==
    SumOver(1 .. (Len(path) - 1), [i \in 1 .. (Len(path) - 1) |->
                                      g.adjacencyMatrix[path[i]][path[i + 1]]])

\* The closed tours from vertex 0.
Tours(g) == {Closed(p) : p \in {q \in Perms[g.numVertices] : q[1] = 0}}

\* The undirected edges of a graph: the pairs a < b joined in some direction.
Pairs(g) == {e \in Vertices(g) \X Vertices(g) : e[1] < e[2]}
UndirectedEdges(g) == {e \in Pairs(g) : HasEdge(g, e[1], e[2]) \/ HasEdge(g, e[2], e[1])}

Symmetric(g) ==
    \A i, j \in Vertices(g) : g.adjacencyMatrix[i][j] = g.adjacencyMatrix[j][i]

\* The vertices joined to S by the edges of E taken in both directions.
RECURSIVE JoinedClosure(_, _)
JoinedClosure(E, S) ==
    LET T == S \cup {e[2] : e \in {d \in E : d[1] \in S}}
                 \cup {e[1] : e \in {d \in E : d[2] \in S}}
    IN  IF T = S THEN S ELSE JoinedClosure(E, T)

\* The edge set E over the vertices of g is a spanning tree: numVertices - 1
\* edges between distinct vertices, no two joining the same pair, that
\* connect all vertices.
IsSpanningTree(g, E) ==
    /\ g.numVertices >= 1
    /\ Cardinality(E) = g.numVertices - 1
    /\ \A e \in E : e[1] # e[2]
    /\ \A d, e \in E : (d # e) => ({d[1], d[2]} # {e[1], e[2]})
    /\ JoinedClosure(E, {0}) = Vertices(g)

\* The spanning trees of g: sets of its directed edges, with their weight.
DirectedEdges(g) == {e \in Vertices(g) \X Vertices(g) : e[1] # e[2] /\ HasEdge(g, e[1], e[2])}
SpanningTrees(g) == {E \in SUBSET DirectedEdges(g) : IsSpanningTree(g, E)}
TreeWeight(g, E) == SumOver(E, [e \in E |-> g.adjacencyMatrix[e[1]][e[2]]])

\* The total weight of an undirected graph, every edge counted once.
UndirectedWeight(g) ==
    SumOver(UndirectedEdges(g), [e \in UndirectedEdges(g) |-> g.adjacencyMatrix[e[1]][e[2]]])

----------------------------------------------------------------------------
(* Claims *)

\* C1: with at least 2 vertices, findHamiltonianCycles() returns exactly the
\* directed Hamiltonian cycles: every returned sequence is one, every closed
\* ordering of the vertices that follows edges is returned, and
\* hasHamiltonianCycle() is true exactly when one exists.
C1_HamiltonianExact ==
    numVertices >= 2 =>
        /\ ret.op = "findHamiltonianCycles" =>
              /\ ret.status = "ok"
              /\ \A i \in 1 .. Len(ret.value) : IsHamiltonianCycle(this, ret.value[i])
              /\ \A p \in Perms[numVertices] :
                     IsHamiltonianCycle(this, Closed(p)) => Closed(p) \in SeqElems(ret.value)
        /\ ret.op = "hasHamiltonianCycle" =>
              ret.value = (\E p \in Perms[numVertices] : IsHamiltonianCycle(this, Closed(p)))

\* A graph of at least 3 vertices that is not complete and has a Hamiltonian
\* cycle, searched.
C1_Witness ==
    /\ numVertices >= 3
    /\ ret.op = "findHamiltonianCycles"
    /\ Len(ret.value) > 0
    /\ \E i, j \in Vertices(this) : i # j /\ ~HasEdge(this, i, j)

\* C2: with one vertex findHamiltonianCycles() returns [[0,0]] if vertex 0
\* has a self-loop and the empty list otherwise; with zero vertices it
\* returns the empty list and raises no error.
C2_SingleAndEmpty ==
    ret.op = "findHamiltonianCycles" =>
        /\ numVertices = 1 =>
              /\ ret.status = "ok"
              /\ ret.value = IF adjacencyMatrix[0][0] # 0 THEN << <<0, 0>> >> ELSE <<>>
        /\ numVertices = 0 => ret.status = "ok" /\ ret.value = <<>>

\* The single vertex with a self-loop, searched.
C2_Witness ==
    /\ numVertices = 1
    /\ adjacencyMatrix[0][0] # 0
    /\ ret.op = "findHamiltonianCycles"
    /\ ret.value = << <<0, 0>> >>

\* C3: findHamiltonianCycles() is empty whenever isConnected() or hasCycle()
\* is false, and with at least 2 vertices it returns what the backtracking
\* search returns without the two gates.
C3_GatesOnlyPrune ==
    ret.op = "findHamiltonianCycles" =>
        /\ (~isConnected(this) \/ ~hasCycle(this)) => ret.value = <<>>
        /\ numVertices >= 2 => ret.value = hamiltonianSearch(this, 0, <<>>)

\* A connected graph of at least 3 vertices without a cycle: the hasCycle
\* gate answers.
C3_Witness ==
    /\ numVertices >= 3
    /\ ret.op = "findHamiltonianCycles"
    /\ isConnected(this) /\ ~hasCycle(this)

\* C4: on a complete graph with V >= 2 vertices travelingSalesman() returns
\* a path of length V+1 from vertex 0 back to vertex 0 whose interior is a
\* permutation of 1..V-1, and a cost that is the sum of the edge weights
\* along that path and the minimum over all closed tours from vertex 0; for
\* V = 2 the tour is [0,1,0] with cost weight(0,1)+weight(1,0).
C4_TspOptimalTour ==
    (ret.op = "travelingSalesman" /\ Complete(this) /\ numVertices >= 2) =>
        /\ ret.status = "ok"
        /\ LET path == ret.value[1]
               cost == ret.value[2]
           IN  /\ Len(path) = numVertices + 1
               /\ path[1] = 0 /\ path[Len(path)] = 0
               /\ path \in Tours(this)
               /\ cost = PathCost(this, path)
               /\ \A t \in Tours(this) : cost <= PathCost(this, t)
               /\ numVertices = 2 =>
                      /\ path = <<0, 1, 0>>
                      /\ cost = adjacencyMatrix[0][1] + adjacencyMatrix[1][0]

\* C5: travelingSalesman() fails with an error and returns no tour exactly
\* when the graph is not complete or has fewer than 2 vertices (the empty and
\* the single-vertex graph, which isComplete() reports complete, included);
\* it succeeds on every complete graph with at least 2 vertices, whatever
\* the weighted flag.
C5_TspPrecondition ==
    ret.op = "travelingSalesman" =>
        /\ (~Complete(this) \/ numVertices < 2) =>
              ret.status = "invalid_argument" /\ "value" \notin DOMAIN ret
        /\ (Complete(this) /\ numVertices >= 2) => ret.status = "ok"
        /\ numVertices < 2 => isComplete(this)

\* The single-vertex graph, complete for isComplete(), rejected.
C5_Witness ==
    /\ ret.op = "travelingSalesman"
    /\ numVertices = 1
    /\ isComplete(this)
    /\ ret.status = "invalid_argument"

\* C6: on a graph whose weighted flag is set and for which isConnected() is
\* true, minimumSpanningTree() returns a graph with exactly V-1 undirected
\* edges whose total weight is at most that of every spanning tree of the
\* input graph.
C6_MstMinimum ==
    (ret.op = "minimumSpanningTree" /\ isWeighted /\ isConnected(this)) =>
        /\ ret.status = "ok"
        /\ Cardinality(UndirectedEdges(ret.value)) = numVertices - 1
        /\ \A E \in SpanningTrees(this) :
               UndirectedWeight(ret.value) <= TreeWeight(this, E)

\* C7: whenever minimumSpanningTree() succeeds, the returned graph is a
\* weighted graph with the input's vertex count and a symmetric matrix, each
\* of its edges carries the weight the input graph gives that edge in one of
\* its directions, and it is a spanning tree.  (The input graph is unchanged:
\* the call is const, MinimumSpanningTree leaves the graph's fields alone.)
C7_MstIsSpanningTree ==
    (ret.op = "minimumSpanningTree" /\ ret.status = "ok") =>
        /\ ret.value.isWeighted
        /\ ret.value.numVertices = numVertices
        /\ Symmetric(ret.value)
        /\ \A i, j \in Vertices(ret.value) :
               HasEdge(ret.value, i, j) =>
                   /\ i # j
                   /\ ret.value.adjacencyMatrix[i][j] \in
                          ({adjacencyMatrix[i][j], adjacencyMatrix[j][i]} \ {0})
        /\ IsSpanningTree(ret.value, UndirectedEdges(ret.value))

C9_HasCycleIffNoTopologicalOrder ==
    ret.op = "hasCycle" =>
        /\ ret.status = "ok"
        /\ ret.value = ~(\E p \in Perms[numVertices] : IsTopologicalOrder(this, p))
        /\ ret.value = HasDirectedCycle(this)
        /\ numVertices = 0 => ret.value = FALSE

\* A graph whose only cycles are self-loops, one of them carrying a weight
\* above 1.
C9_Witness ==
    /\ ret.op = "hasCycle"
    /\ ret.value = TRUE
    /\ numVertices >= 2
    /\ \E i \in Vertices(this) : adjacencyMatrix[i][i] > 1
    /\ \A i, j \in Vertices(this) : i # j => ~(j \in Reachable(this, i) /\ i \in Reachable(this, j))

\* C10: for a valid start vertex s, depthFirstTraversal(s) and
\* breadthFirstTraversal(s) each begin with s and list every vertex
\* reachable from s exactly once and no other vertex, so the two have the
\* same length and the same elements.
C10_TraversalsVisitReachableOnce ==
    (ret.op \in {"depthFirstTraversal", "breadthFirstTraversal"}
        /\ validVertex(this, ret.args[1])) =>
        LET s == ret.args[1]
            counterpart == IF ret.op = "depthFirstTraversal"
                           THEN breadthFirstTraversal(this, s)
                           ELSE depthFirstTraversal(this, s)
        IN  /\ ret.status = "ok"
            /\ ret.value[1] = s
            /\ SeqElems(ret.value) = Reachable(this, s)
            /\ NoDuplicates(ret.value)
            /\ Len(counterpart) = Len(ret.value)
            /\ SeqElems(counterpart) = SeqElems(ret.value)

\* A depth-first traversal over a cycle with a self-loop that reaches some
\* but not all vertices.
C10_Witness ==
    /\ ret.op = "depthFirstTraversal"
    /\ ret.status = "ok"
    /\ numVertices >= 3
    /\ Len(ret.value) = 2
    /\ HasEdge(this, ret.value[1], ret.value[2])
    /\ HasEdge(this, ret.value[2], ret.value[1])
    /\ HasEdge(this, ret.value[2], ret.value[2])

----------------------------------------------------------------------------
(* The recursive depth-first search the traversal is compared with: order is
   the preorder so far; a vertex already in it is skipped, a new one is
   appended and its neighbours are tried from the smallest index up. *)

RECURSIVE RecursiveVisit(_, _, _), RecursiveVisitNeighbours(_, _, _, _)
RecursiveVisit(g, v, order) ==
    IF v \in SeqElems(order) THEN order
    ELSE RecursiveVisitNeighbours(g, v, 0, Append(order, v))

RecursiveVisitNeighbours(g, v, j, order) ==
    IF j >= g.numVertices THEN order
    ELSE RecursiveVisitNeighbours(g, v, j + 1,
             IF HasEdge(g, v, j) THEN RecursiveVisit(g, j, order) ELSE order)

C12_IsConnectedSomeVertexReachesAll ==
    ret.op = "isConnected" =>
        /\ ret.value = (\E v \in Vertices(this) : Reachable(this, v) = Vertices(this))
        /\ numVertices = 0 => ret.value = FALSE
        /\ numVertices = 1 => ret.value = TRUE

\* A graph of at least 3 vertices found connected although its vertex 0 does
\* not reach every vertex: a later vertex does.
C12_Witness ==
    /\ ret.op = "isConnected"
    /\ ret.value = TRUE
    /\ numVertices >= 3
    /\ Reachable(this, 0) # Vertices(this)

\* C13: isStronglyConnected() is true exactly when every vertex reaches
\* every vertex, and then areVerticesStronglyConnected(u,v) is true for
\* every pair of valid vertices; areVerticesStronglyConnected(u,v) is true
\* exactly when v is reachable from u and u from v.
C13_StrongConnectivity ==
    /\ ret.op = "isStronglyConnected" =>
           /\ ret.value = (\A u, v \in Vertices(this) : v \in Reachable(this, u))
           /\ ret.value => \A u, v \in Vertices(this) :
                               areVerticesStronglyConnected(this, u, v)
    /\ (ret.op = "areVerticesStronglyConnected"
           /\ validVertex(this, ret.args[1]) /\ validVertex(this, ret.args[2])) =>
           /\ ret.status = "ok"
           /\ ret.value = (/\ ret.args[2] \in Reachable(this, ret.args[1])
                           /\ ret.args[1] \in Reachable(this, ret.args[2]))

\* A strongly connected graph of at least 3 vertices that is not complete:
\* some pair is joined by a path only.
C13_Witness ==
    /\ ret.op = "isStronglyConnected"
    /\ ret.value = TRUE
    /\ numVertices >= 3
    /\ ~Complete(this)

\* C18: isComplete() is true exactly when every ordered pair of distinct
\* vertices (i,j) has the edge i -> j; adding or removing a self-loop never
\* changes its result; it is true for graphs with zero or one vertex.
C18_IsCompleteIgnoresLoops ==
    ret.op = "isComplete" =>
        /\ ret.value = Complete(this)
        /\ \A v \in Vertices(this) :
               /\ isComplete(addEdge(this, v, v).graph) = ret.value
               /\ isComplete(removeEdge(this, v, v).graph) = ret.value
        /\ numVertices <= 1 => ret.value = TRUE

\* A complete graph of at least 3 vertices with a self-loop on one vertex
\* and none on another.
C18_Witness ==
    /\ ret.op = "isComplete"
    /\ ret.value = TRUE
    /\ numVertices >= 3
    /\ \E u, v \in Vertices(this) : HasEdge(this, u, u) /\ ~HasEdge(this, v, v)

----------------------------------------------------------------------------
(* Store claims *)

\* C14: for every valid k, removeVertex(k) decrements the vertex count by
\* one and relabels every vertex above k down by one, keeping every edge not
\* incident to k: the new cell (i,j) is the old cell (i',j') with x' = x for
\* x < k and x' = x + 1 otherwise.
C14_RemoveVertexRelabels ==
    [][(ret'.op = "removeVertex" /\ validVertex(this, ret'.args[1])) =>
           LET k == ret'.args[1]
               Before(x) == IF x < k THEN x ELSE x + 1
           IN  /\ ret'.status = "ok"
               /\ numVertices' = numVertices - 1
               /\ DOMAIN adjacencyMatrix' = 0 .. (numVertices' - 1)
               /\ \A i \in 0 .. (numVertices' - 1) :
                      /\ DOMAIN adjacencyMatrix'[i] = 0 .. (numVertices' - 1)
                      /\ \A j \in 0 .. (numVertices' - 1) :
                             adjacencyMatrix'[i][j] = adjacencyMatrix[Before(i)][Before(j)]]_vars

\* The middle vertex of a 3-vertex graph removed: the two survivors keep an
\* edge 0 -> 1 (the former 0 -> 2) and a self-loop on 1 (the former vertex 2).
C14_Witness ==
    /\ ret.op = "removeVertex"
    /\ ret.status = "ok"
    /\ ret.args[1] = 1
    /\ numVertices = 2
    /\ adjacencyMatrix[0][1] # 0
    /\ adjacencyMatrix[1][0] = 0
    /\ adjacencyMatrix[1][1] # 0

\* A matrix with numVertices rows of numVertices entries each.
Square(g) ==
    /\ DOMAIN g.adjacencyMatrix = 0 .. (g.numVertices - 1)
    /\ \A i \in DOMAIN g.adjacencyMatrix :
           DOMAIN g.adjacencyMatrix[i] = 0 .. (g.numVertices - 1)

\* C15: after any sequence of construction, addVertex, removeVertex, addEdge
\* (both forms), addUndirectedEdge, removeEdge, clear, copy and move, failing
\* calls included, the matrix of every object has exactly numVertices rows
\* of numVertices entries; and the vertex addVertex() adds has no edge in
\* either direction.
C15_MatrixSquare ==
    /\ Square(this)
    /\ other # NoGraph => Square(other)
    /\ ret.op = "addVertex" =>
           LET g == Object(ret.on)
               v == g.numVertices - 1
           IN  \A i \in Vertices(g) :
                   g.adjacencyMatrix[v][i] = 0 /\ g.adjacencyMatrix[i][v] = 0

\* addVertex() on a graph that is empty again, beside a second object that
\* holds two vertices and an edge: the first was moved from or cleared after
\* the second took its contents.
C15_Witness ==
    /\ ret.op = "addVertex"
    /\ ret.on = "this"
    /\ numVertices = 1
    /\ other # NoGraph
    /\ other.numVertices = 2
    /\ other.adjacencyMatrix[0][1] # 0

\* The vertex indices a call was given.
OneIndexOps ==
    {"removeVertex", "getNeighbors", "getDegree", "depthFirstTraversal",
     "breadthFirstTraversal"}
TwoIndexOps ==
    {"addEdge", "addEdgeWeighted", "addUndirectedEdge", "removeEdge", "isAdjacent",
     "getEdgeWeight", "areVerticesStronglyConnected"}
WeightOps == {"addEdgeWeighted", "addUndirectedEdge"}
IndexArgs(r) ==
    IF r.op \in OneIndexOps THEN {r.args[1]}
    ELSE IF r.op \in TwoIndexOps THEN {r.args[1], r.args[2]}
    ELSE {}
Failed(r) == r.status \in {"out_of_range", "invalid_argument"}

\* C16: every operation that takes a vertex index fails with IndexError
\* (std::out_of_range) when an index is outside [0, numVertices); weighted
\* addEdge and addUndirectedEdge fail when weight <= 0, with InvalidArgument
\* (std::invalid_argument) when the indices are valid; after a failing call
\* the vertex count and the whole matrix are as before; addUndirectedEdge
\* never leaves only one of its two edges set.
C16_FailFastNoPartialMutation ==
    [][LET r == ret'
           badIndex == \E x \in IndexArgs(r) : ~validVertex(this, x)
       IN  /\ r.op \in OneIndexOps \cup TwoIndexOps =>
                  (badIndex <=> r.status = "out_of_range")
           /\ (r.op \in WeightOps /\ r.args[3] <= 0) =>
                  /\ Failed(r)
                  /\ ~badIndex => r.status = "invalid_argument"
           /\ r.status = "invalid_argument" =>
                  r.op = "getEdgeWeight" \/ (r.op \in WeightOps /\ r.args[3] <= 0)
           /\ Failed(r) =>
                  /\ numVertices' = numVertices
                  /\ isWeighted' = isWeighted
                  /\ adjacencyMatrix' = adjacencyMatrix
           /\ r.op = "addUndirectedEdge" =>
                  \/ adjacencyMatrix' = adjacencyMatrix /\ Failed(r)
                  \/ /\ r.status = "ok"
                     /\ adjacencyMatrix'[r.args[1]][r.args[2]] = r.args[3]
                     /\ adjacencyMatrix'[r.args[2]][r.args[1]] = r.args[3]]_vars

\* addUndirectedEdge(1, 0, w) with w <= 0 rejected on a graph that has the
\* edge 0 -> 1 and not 1 -> 0: the missing direction is still missing.
C16_Witness ==
    /\ ret.op = "addUndirectedEdge"
    /\ ret.status = "invalid_argument"
    /\ ret.args[1] = 1 /\ ret.args[2] = 0
    /\ adjacencyMatrix[0][1] # 0
    /\ adjacencyMatrix[1][0] = 0

\* The cells of g other than (from, to).
OtherCells(g, from, to) ==
    [c \in {d \in Vertices(g) \X Vertices(g) : d # <<from, to>>} |->
        g.adjacencyMatrix[c[1]][c[2]]]

\* The count of non-zero cells in row v.
OutDegree(g, v) == Cardinality({j \in Vertices(g) : g.adjacencyMatrix[v][j] # 0})

\* C17: addEdge (both forms) and removeEdge are idempotent and local: a
\* second identical call changes nothing, removeEdge of an absent edge
\* changes nothing and raises no error, and a successful call changes at
\* most the cell (from,to), leaving the vertex count, the weighted flag and
\* every other cell alone, so the degree of from changes by at most one.
C17_EdgeCallsIdempotentLocal ==
    [][LET r == ret'
           from == r.args[1]
           to == r.args[2]
       IN  (r.op \in {"addEdge", "addEdgeWeighted", "removeEdge"} /\ r.status = "ok") =>
               /\ numVertices' = numVertices
               /\ isWeighted' = isWeighted
               /\ OtherCells(this', from, to) = OtherCells(this, from, to)
               /\ OutDegree(this', from) - OutDegree(this, from) \in {0 - 1, 0, 1}
               /\ getDegree(this', from) = OutDegree(this', from)
               /\ r.op = "addEdge" => addEdge(this', from, to) = [status |-> "ok", graph |-> this']
               /\ r.op = "addEdgeWeighted" =>
                      addEdgeWeighted(this', from, to, r.args[3])
                          = [status |-> "ok", graph |-> this']
               /\ r.op = "removeEdge" =>
                      /\ removeEdge(this', from, to) = [status |-> "ok", graph |-> this']
                      /\ adjacencyMatrix[from][to] = 0 => adjacencyMatrix' = adjacencyMatrix]_vars

\* removeEdge(from, to) succeeded on a 3-vertex graph whose row from still
\* holds two edges: only the cell (from, to) is zero.
C17_Witness ==
    /\ ret.op = "removeEdge"
    /\ ret.status = "ok"
    /\ numVertices = 3
    /\ adjacencyMatrix[ret.args[1]][ret.args[2]] = 0
    /\ OutDegree(this, ret.args[1]) = 2

\* The mutators of one object.
MutatorOps ==
    {"addVertex", "removeVertex", "addEdge", "addEdgeWeighted", "addUndirectedEdge",
     "removeEdge", "clear"}

\* Zero vertices and an empty matrix.
Emptied(g) == g.numVertices = 0 /\ g.adjacencyMatrix = <<>>

\* C19: copy construction and copy assignment give the destination the
\* source's vertex count, flag and matrix and leave the source as it was,
\* and afterwards a mutation of either object leaves the other unchanged;
\* move construction and move assignment give the destination the source's
\* former vertex count, flag and matrix and leave the source with zero
\* vertices and an empty matrix.
C19_CopyIndependentMoveEmpties ==
    [][LET r == ret'
       IN  /\ r.op = "copyConstruct" => other' = this /\ this' = this
           /\ (r.op = "copyAssign" /\ r.on = "this" /\ r.args[1] = "other") =>
                  this' = other /\ other' = other
           /\ (r.op = "copyAssign" /\ r.on = "other" /\ r.args[1] = "this") =>
                  other' = this /\ this' = this
           /\ r.op = "moveConstruct" => other' = this /\ Emptied(this')
           /\ (r.op = "moveAssign" /\ r.on = "this" /\ r.args[1] = "other") =>
                  this' = other /\ Emptied(other')
           /\ (r.op = "moveAssign" /\ r.on = "other" /\ r.args[1] = "this") =>
                  other' = this /\ Emptied(this')
           /\ (r.op \in {"copyAssign", "moveAssign"} /\ r.args[1] = r.on) =>
                  this' = this /\ other' = other
           /\ (r.op \in MutatorOps /\ r.on = "this") => other' = other
           /\ (r.op \in MutatorOps /\ r.on = "other") => this' = this]_vars

\* other = std::move(*this) done: the second object holds two vertices and
\* both edges between them, the first is empty.
C19_Witness ==
    /\ ret.op = "moveAssign"
    /\ ret.on = "other"
    /\ ret.args[1] = "this"
    /\ Emptied(this)
    /\ other.numVertices = 2
    /\ other.adjacencyMatrix[0][1] # 0
    /\ other.adjacencyMatrix[1][0] # 0

\* C20: getEdgeWeight(from,to) returns the value the most recent successful
\* insertion stored in the cell (w after addEdge(from,to,w), 1 after
\* addEdge(from,to)), fails with InvalidArgument when both indices are valid
\* and the cell is zero (never set, or removed by removeEdge), and succeeds
\* exactly when isAdjacent(from,to) is true.
C20_GetEdgeWeightReadsCell ==
    [][LET r == ret'
           from == r.args[1]
           to == r.args[2]
       IN  /\ (r.op = "getEdgeWeight" /\ validVertex(this, from) /\ validVertex(this, to)) =>
                  /\ r.status = "ok" <=> isAdjacent(this, from, to)
                  /\ r.status = "ok" => r.value = adjacencyMatrix[from][to]
                  /\ adjacencyMatrix[from][to] = 0 => r.status = "invalid_argument"
           /\ (r.op = "addEdgeWeighted" /\ r.status = "ok") =>
                  getEdgeWeight(this', from, to) = [status |-> "ok", value |-> r.args[3]]
           /\ (r.op = "addUndirectedEdge" /\ r.status = "ok") =>
                  /\ getEdgeWeight(this', from, to) = [status |-> "ok", value |-> r.args[3]]
                  /\ getEdgeWeight(this', to, from) = [status |-> "ok", value |-> r.args[3]]
           /\ (r.op = "addEdge" /\ r.status = "ok") =>
                  getEdgeWeight(this', from, to) = [status |-> "ok", value |-> 1]
           /\ (r.op = "removeEdge" /\ r.status = "ok") =>
                  getEdgeWeight(this', from, to) = [status |-> "invalid_argument"]
           /\ (r.op = "isAdjacent" /\ r.status = "ok") =>
                  (r.value <=> getEdgeWeight(this, from, to).status = "ok")]_vars

\* getEdgeWeight returned a weight that only the weighted addEdge stores.
C20_Witness ==
    /\ ret.op = "getEdgeWeight"
    /\ ret.status = "ok"
    /\ ret.value > 1
    /\ ret.args[1] # ret.args[2]
    /\ adjacencyMatrix[ret.args[2]][ret.args[1]] = 1

----------------------------------------------------------------------------
(* Behaviour claims *)

\* a comes before b in lexicographic order (sequences of equal length).
LexLess(a, b) ==
    \E k \in 1 .. Len(a) : a[k] < b[k] /\ \A j \in 1 .. (k - 1) : a[j] = b[j]

\* The closed tours of minimum cost, the cost taken in unbounded integers.
CheapestTours(g) ==
    {t \in Tours(g) : \A x \in Tours(g) : PathCost(g, t) <= PathCost(g, x)}

Rotation(c, k) ==
    LET n == Len(c) - 1
    IN  [i \in 1 .. (n + 1) |-> c[((k - 1 + i - 1) % n) + 1]]

\* C23: findHamiltonianCycles() neither canonicalizes nor de-duplicates: for
\* V >= 2 every rotation of a reported cycle is reported, no sequence is
\* reported twice, the number of results is a multiple of V, and the results
\* come by ascending start vertex and, within a start vertex, in ascending
\* lexicographic order of the path.
C23_HamiltonianRotationsOrdered ==
    (ret.op = "findHamiltonianCycles" /\ numVertices >= 2) =>
        /\ \A i \in 1 .. Len(ret.value) : \A k \in 1 .. numVertices :
               Rotation(ret.value[i], k) \in SeqElems(ret.value)
        /\ NoDuplicates(ret.value)
        /\ Len(ret.value) % numVertices = 0
        /\ \A i, j \in 1 .. Len(ret.value) :
               i < j => /\ ret.value[i][1] <= ret.value[j][1]
                        /\ LexLess(ret.value[i], ret.value[j])

\* The complete graph on at least 3 vertices searched: both directions of
\* its cycle, each from every start vertex.
C23_Witness ==
    /\ ret.op = "findHamiltonianCycles"
    /\ numVertices >= 3
    /\ Len(ret.value) >= 2 * numVertices

\* C29: in travelingSalesman() for V >= 3, with weights and sums in ints of
\* the machine width, the running tour sum never overflows and some tour
\* costs strictly less than the initial bestDistance (the largest int), so
\* the returned path is never the empty initial bestPath and the returned
\* cost is never the sentinel.
C29_TspSumInRange ==
    (ret.op = "travelingSalesman" /\ Complete(this) /\ numVertices >= 3) =>
        /\ \A t \in Tours(this) : \A k \in 1 .. Len(t) :
               PathCost(this, SubSeq(t, 1, k)) <= IntMax
        /\ \E t \in Tours(this) : PathCost(this, t) < IntMax
        /\ ret.status = "ok"
        /\ ret.value[1] # <<>>
        /\ ret.value[2] # IntMax

\* C30: with at least one vertex isStronglyConnected() true implies
\* isConnected() true; with zero vertices isStronglyConnected() is true and
\* isConnected() false; areVerticesStronglyConnected is reflexive and
\* symmetric on valid vertices.
C30_StrongImpliesConnected ==
    /\ ret.op = "isStronglyConnected" =>
           /\ (numVertices >= 1 /\ ret.value) => isConnected(this)
           /\ numVertices = 0 => (ret.value = TRUE /\ isConnected(this) = FALSE)
    /\ (ret.op = "areVerticesStronglyConnected" /\ ret.status = "ok") =>
           /\ ret.args[1] = ret.args[2] => ret.value = TRUE
           /\ ret.value = areVerticesStronglyConnected(this, ret.args[2], ret.args[1])
           /\ areVerticesStronglyConnected(this, ret.args[1], ret.args[1])

\* Two distinct vertices found not strongly connected although the second
\* is reachable from the first.
C30_Witness ==
    /\ ret.op = "areVerticesStronglyConnected"
    /\ ret.status = "ok"
    /\ ret.value = FALSE
    /\ ret.args[2] \in Reachable(this, ret.args[1])

----------------------------------------------------------------------------
(* Loop claims *)

\* C26: during hasCycle()'s elimination loop every vertex is enqueued at
\* most once, no in-degree counter is negative, a vertex is enqueued only
\* when its remaining in-degree is exactly zero (and keeps it), the visited
\* counter never exceeds the vertex count, and the graph is not modified.
C26_KahnLoopInvariant ==
    [][(frame.op = "hasCycle" \/ frame'.op = "hasCycle") =>
           /\ UNCHANGED <<numVertices, isWeighted, adjacencyMatrix>>
           /\ frame'.op = "hasCycle" =>
                  /\ NoDuplicates(frame'.pushed)
                  /\ \A v \in Vertices(this) : frame'.inDegree[v] >= 0
                  /\ \A i \in 1 .. Len(frame'.pushed) : frame'.inDegree[frame'.pushed[i]] = 0
                  /\ frame'.visited <= numVertices
                  /\ frame'.visited + Len(frame'.toTraverse) = Len(frame'.pushed)]_vars

\* The loop has run to its end on three vertices of which the last has two
\* incoming edges: its counter fell twice and it was enqueued once.
C26_Witness ==
    /\ Running("hasCycle")
    /\ numVertices = 3
    /\ adjacencyMatrix[0][2] # 0 /\ adjacencyMatrix[1][2] # 0
    /\ frame.toTraverse = <<>>
    /\ frame.visited = 3

\* The vertices within k hops of s, and the hop distance of a reachable v.
RECURSIVE Ball(_, _, _)
Ball(g, s, k) ==
    IF k = 0 THEN {s}
    ELSE LET inner == Ball(g, s, k - 1)
         IN  inner \cup {v \in Vertices(g) : \E u \in inner : HasEdge(g, u, v)}

Dist(g, s, v) == CHOOSE k \in 0 .. g.numVertices :
                     v \in Ball(g, s, k) /\ \A l \in 0 .. (k - 1) : v \notin Ball(g, s, l)

\* The position in order of the vertex that enqueued order[j]: the first one
\* with an edge to it.
ParentIndex(g, order, j) ==
    CHOOSE i \in 1 .. Len(order) :
        /\ HasEdge(g, order[i], order[j])
        /\ \A l \in 1 .. (i - 1) : ~HasEdge(g, order[l], order[j])

\* order lists vertices by non-decreasing hop distance from start, those
\* enqueued by the same parent in ascending index order, none twice.
BfsOrdered(g, start, order) ==
    /\ NoDuplicates(order)
    /\ SeqElems(order) \subseteq Reachable(g, start)
    /\ order # <<>> => order[1] = start
    /\ \A i, j \in 1 .. Len(order) :
           i < j =>
               /\ Dist(g, start, order[i]) <= Dist(g, start, order[j])
               /\ (i > 1 /\ ParentIndex(g, order, i) = ParentIndex(g, order, j))
                      => order[i] < order[j]
               /\ (i > 1) => ParentIndex(g, order, i) <= ParentIndex(g, order, j)

\* C27: breadthFirstTraversal(start) marks vertices visited when it enqueues
\* them and enqueues neighbours in ascending index order: no vertex is in the
\* queue twice, and the vertices come out in non-decreasing order of their
\* hop distance from start, those of one parent in ascending index order.
C27_BfsLevelOrder ==
    /\ Running("breadthFirstTraversal") =>
           LET order == frame.traversal \o frame.toTraverse
           IN  /\ BfsOrdered(this, frame.startVertex, order)
               /\ \A v \in Vertices(this) : frame.visited[v] <=> v \in SeqElems(order)
    /\ (ret.op = "breadthFirstTraversal" /\ ret.status = "ok") =>
           /\ BfsOrdered(this, ret.args[1], ret.value)
           /\ SeqElems(ret.value) = Reachable(this, ret.args[1])

\* A traversal returned in which distance overrides index and the last
\* vertex has an edge back to the start, which it does not enqueue again.
C27_Witness ==
    /\ ret.op = "breadthFirstTraversal"
    /\ ret.status = "ok"
    /\ Len(ret.value) = 3
    /\ ret.value[2] > ret.value[3]
    /\ Dist(this, ret.args[1], ret.value[3]) = 2
    /\ HasEdge(this, ret.value[3], ret.value[1])

\* The path of the search starts at the start vertex, follows edges, holds
\* no vertex twice and at most all of them, and visited marks its vertices.
HamPathWellFormed ==
    /\ frame.path # <<>>
    /\ frame.path[1] = frame.startVertex
    /\ \A i \in 1 .. (Len(frame.path) - 1) : HasEdge(this, frame.path[i], frame.path[i + 1])
    /\ NoDuplicates(frame.path)
    /\ Len(frame.path) <= numVertices
    /\ \A v \in Vertices(this) : frame.visited[v] <=> v \in SeqElems(frame.path)

\* C24: at every step of the Hamiltonian backtracking search the path starts
\* at the start vertex, follows existing edges, holds no vertex twice and at
\* most V vertices, the recursion is at most V deep, and visited[v] is true
\* exactly for the vertices on the path; when a call of
\* findHamiltonianCyclesHelper returns (and whenever it is the innermost
\* call), path and visited are as they were when it was entered.
C24_BacktrackingInvariant ==
    Running("findHamiltonianCycles") =>
        /\ HamPathWellFormed
        /\ Len(frame.stack) <= numVertices
        /\ Len(frame.stack) = Len(frame.path)
        /\ \A d \in 1 .. Len(frame.stack) : frame.stack[d].currentVertex = frame.path[d]
        /\ frame.path = Top.entryPath
        /\ frame.visited = Top.entryVisited

\* A call at the full depth of three vertices is about to return after the
\* search has already backtracked and recorded a cycle.
C24_Witness ==
    /\ Running("findHamiltonianCycles")
    /\ numVertices = 3
    /\ Len(frame.stack) = 3
    /\ TopFinished
    /\ frame.cycles # <<>>
    /\ frame.path[2] = 2

\* C28: whenever minimumSpanningTree() passes its precondition checks, each
\* iteration of its main loop finds a vertex not yet in the tree whose key is
\* strictly below the sentinel: u is in [0, V) and never -1 when inMST[u]
\* and row u of the matrix are accessed.
C28_MstSelectionInRange ==
    (Running("minimumSpanningTree") /\ frame.pc = "add") =>
        /\ frame.u \in Vertices(this)
        /\ ~frame.inMST[frame.u]
        /\ frame.minKey < IntMax

\* C22: in every iteration of minimumSpanningTree()'s main loop the vertex
\* added is the vertex not yet in the tree of minimum key, the lowest-indexed
\* one among equals; vertex 0 is added first; key and parent of a vertex
\* change only when the edge from the vertex just added is strictly lighter
\* than its key.
C22_MstSelectsMinimumKey ==
    [][frame.op = "minimumSpanningTree" /\ frame'.op = "minimumSpanningTree" =>
           /\ frame'.pc = "add" =>
                  /\ frame'.u \in Vertices(this)
                  /\ ~frame'.inMST[frame'.u]
                  /\ \A v \in Vertices(this) :
                         ~frame'.inMST[v] =>
                             \/ frame'.key[frame'.u] < frame'.key[v]
                             \/ frame'.key[frame'.u] = frame'.key[v] /\ frame'.u <= v
                  /\ frame'.count = 0 => frame'.u = 0
           /\ frame.pc = "add" =>
                  \A v \in Vertices(this) :
                      (frame'.key[v] # frame.key[v] \/ frame'.parent[v] # frame.parent[v]) =>
                          /\ adjacencyMatrix[frame.u][v] < frame.key[v]
                          /\ frame'.key[v] = adjacencyMatrix[frame.u][v]
                          /\ frame'.parent[v] = frame.u]_vars

\* C25: on every graph depthFirstTraversal, breadthFirstTraversal, hasCycle,
\* findHamiltonianCycles, minimumSpanningTree and travelingSalesman
\* terminate: a call that has begun eventually ends, its stack or queue
\* empty, whatever cycles and self-loops the graph has; and some call is
\* made and ends.
C25_CallsTerminate ==
    /\ (frame # NoFrame) ~> (frame = NoFrame /\ ret # NoCall)
    /\ <>(frame = NoFrame /\ ret # NoCall)

\* The stack of a depth-first traversal holds the same vertex twice, on a
\* graph with a self-loop at the start vertex.
C25_Witness ==
    /\ Running("depthFirstTraversal")
    /\ HasEdge(this, frame.startVertex, frame.startVertex)
    /\ \E i, j \in 1 .. Len(frame.toTraverse) :
           i < j /\ frame.toTraverse[i] = frame.toTraverse[j]

====
